---- MODULE Spec2Model ----
(***************************************************************************)
(* Knowsio / Aisupport-Backend: the retrieval-augmented generation core.  *)
(* The vector store adapter (db.js), the bounded concurrency executor     *)
(* (mapLimit), the upload and ask handlers (index.js), the chunker        *)
(* (chunk.js) and the generation router (llm.js) as state machines.       *)
(***************************************************************************)
EXTENDS Integers, Sequences, FiniteSets, TLC

VARIABLES
    kb_domain,   \* rows of table kb_domain
    kb_org,      \* rows of table kb_org
    op,          \* the last call of a function (of the store, or chunkText, toVectorLiteral,
                 \* generateLLM): its arguments, its position and its outcome
    lastWrite,   \* per table and id, the arguments of the last insertChunk that succeeded
    ml,          \* the state of one mapLimit run: items, limit, out, i, inFlight, the
                 \* returned promise and, per item index, the state of its worker invocation
    mq,          \* the microtask queue: promise reactions waiting to run
    hist,        \* observations of the run: order of settlement, first failure
    req          \* the /upload or /ask request being served

vars == <<kb_domain, kb_org, op, lastWrite, ml, mq, hist, req>>

storeVars == <<kb_domain, kb_org, op, lastWrite>>
runVars == <<ml, mq, hist>>

----------------------------------------------------------------------------
(* Bounds *)

MaxIds == 2        \* distinct chunk ids
MaxRows == 2       \* rows held by the two tables together
Dim == 2           \* dimension of the VECTOR columns (768 in the schema)
MaxItems == 4      \* length of the item list of a mapLimit run
MaxLimit == 3      \* largest concurrency limit tried
MaxUploads == 2    \* upload requests served one after the other
MaxChunks == 2     \* chunks of an uploaded text
MaxTotalChunks == 3 \* chunks of all uploaded texts together

----------------------------------------------------------------------------
(* JavaScript values *)

Undefined == [type |-> "undefined"]
Null == [type |-> "null"]
Str(s) == [type |-> "string", s |-> s]
Num(n) == [type |-> "number", n |-> n]
NaN == [type |-> "number", special |-> "NaN"]
Infinity == [type |-> "number", special |-> "Infinity"]
Arr(elems) == [type |-> "object", array |-> elems]

IsArray(v) == v.type = "object" /\ "array" \in DOMAIN v
IsFinite(v) == v.type = "number" /\ "n" \in DOMAIN v
Truthy(v) ==
    CASE v.type = "undefined" -> FALSE
      [] v.type = "null" -> FALSE
      [] v.type = "string" -> v.s # ""
      [] v.type = "number" -> IsFinite(v) /\ v.n # 0
      [] OTHER -> TRUE

\* obj.key of a plain object: undefined when the key is absent
Prop(obj, key) == IF key \in DOMAIN obj THEN obj[key] ELSE Undefined

ParseFloat(s) ==
    CASE s \in {"0", "0.0"} -> Num(0)
      [] s \in {"1", "1abc", " 1"} -> Num(1)
      [] s \in {"2"} -> Num(2)
      [] OTHER -> NaN

Min(a, b) == IF a <= b THEN a ELSE b

----------------------------------------------------------------------------
(* db.js: vector literal encoding *)

ErrNotArray == "embedding must be an array"

toVectorLiteral(vec) ==
    [k \in 1..Len(vec.array) |->
        LET v == vec.array[k]
            n == IF v.type = "string" THEN ParseFloat(v.s) ELSE v
        IN  IF IsFinite(n) THEN n.n ELSE 0]

----------------------------------------------------------------------------
(* pg: how a query parameter reaches the server *)

SqlNull == [sql |-> "NULL"]
SqlText(s) == [sql |-> "text", s |-> s]
SqlArrayLiteral(elems) == [sql |-> "text", arrayLiteral |-> elems]

\* undefined and null are sent as NULL, a string as itself, an array as the
\* text of a '{...}' literal
PrepareValue(v) ==
    CASE v.type \in {"undefined", "null"} -> SqlNull
      [] v.type = "string" -> SqlText(v.s)
      [] OTHER -> SqlArrayLiteral(v.array)

\* a text value with at least one character ('{...}' always has two)
NonEmptyText(x) == x.sql = "text" /\ ("s" \in DOMAIN x => x.s # "")

\* JSON.stringify of the metadata object: keys whose value is undefined are dropped
Jsonb(metadata) ==
    [k \in {key \in DOMAIN metadata : metadata[key] # Undefined} |-> metadata[k]]

----------------------------------------------------------------------------
(* db.js: schema *)

Tables == {"kb_domain", "kb_org"}
PrimaryKey == "id"
ErrDimension == "expected 768 dimensions"
ErrOrgIdNull == "null value in column org_id violates not-null constraint"
ErrDifferentDims == "different vector dimensions"
ErrNegativeLimit == "LIMIT must not be negative"

Rows(table) == IF table = "kb_org" THEN kb_org ELSE kb_domain
RowsUnder(table, id) == {r \in Rows(table) : r[PrimaryKey] = id}

----------------------------------------------------------------------------
(* db.js: insertChunk *)

\* the row the VALUES clause builds from the call's parameters
NewRow(table, id, text, metadata, embedding) ==
    IF table = "kb_org"
    THEN [id |-> id, text |-> text, metadata |-> Jsonb(metadata),
          embedding |-> toVectorLiteral(embedding),
          org_id |-> PrepareValue(Prop(metadata, "org_id"))]
    ELSE [id |-> id, text |-> text, metadata |-> Jsonb(metadata),
          embedding |-> toVectorLiteral(embedding)]

\* INSERT ... ON CONFLICT (id) DO UPDATE SET ...
UpsertAppend(table, rows, new) == rows \cup {new}
UpsertKeepOrgId(table, rows, new) ==
    IF \E r \in rows : r[PrimaryKey] = new[PrimaryKey]
    THEN { IF r[PrimaryKey] # new[PrimaryKey] THEN r
           ELSE [r EXCEPT !.text = new.text, !.metadata = new.metadata,
                          !.embedding = new.embedding]
           : r \in rows }
    ELSE rows \cup {new}
UpsertKeepMetadata(table, rows, new) ==
    IF \E r \in rows : r[PrimaryKey] = new[PrimaryKey]
    THEN { IF r[PrimaryKey] # new[PrimaryKey] THEN r
           ELSE IF table = "kb_org"
                THEN [r EXCEPT !.text = new.text, !.embedding = new.embedding,
                               !.org_id = new.org_id]
                ELSE [r EXCEPT !.text = new.text, !.embedding = new.embedding]
           : r \in rows }
    ELSE rows \cup {new}
Upsert(table, rows, new) ==
    IF \E r \in rows : r[PrimaryKey] = new[PrimaryKey]
    THEN { IF r[PrimaryKey] # new[PrimaryKey] THEN r
           ELSE IF table = "kb_org"
                THEN [r EXCEPT !.text = new.text, !.metadata = new.metadata,
                               !.embedding = new.embedding, !.org_id = new.org_id]
                ELSE [r EXCEPT !.text = new.text, !.metadata = new.metadata,
                               !.embedding = new.embedding]
           : r \in rows }
    ELSE rows \cup {new}

\* the error insertChunk ends with, "ok" when the statement is executed
InsertOutcomeOrgIdNullable(table, metadata, embedding) ==
    IF ~IsArray(embedding) THEN ErrNotArray
    ELSE IF Len(toVectorLiteral(embedding)) # Dim THEN ErrDimension
    ELSE "ok"
InsertOutcome(table, metadata, embedding) ==
    IF ~IsArray(embedding) THEN ErrNotArray
    ELSE IF Len(toVectorLiteral(embedding)) # Dim THEN ErrDimension
    ELSE IF table = "kb_org" /\ PrepareValue(Prop(metadata, "org_id")) = SqlNull
         THEN ErrOrgIdNull
    ELSE "ok"

NoWrite == [written |-> FALSE]

\* the effect of one insertChunk call on the store variables
DoInsertMovesTier(table, id, text, metadata, embedding) ==
    LET outcome == InsertOutcome(table, metadata, embedding)
        call == [name |-> "insertChunk", table |-> table, id |-> id, text |-> text,
                 metadata |-> metadata, embedding |-> embedding, outcome |-> outcome,
                 replaced |-> RowsUnder(table, id) # {},
                 before |-> RowsUnder(table, id)]
    IN  /\ op' = call
        /\ IF outcome = "ok"
           THEN LET rows == Upsert(table, Rows(table),
                                   NewRow(table, id, text, metadata, embedding))
                IN  /\ kb_org' = IF table = "kb_org" THEN rows
                                 ELSE {r \in kb_org : r.id # id}
                    /\ kb_domain' = IF table = "kb_org" THEN {r \in kb_domain : r.id # id}
                                    ELSE rows
                    /\ lastWrite' = [lastWrite EXCEPT ![table][id] =
                           [written |-> TRUE, id |-> id, text |-> text,
                            metadata |-> metadata, embedding |-> embedding]]
           ELSE UNCHANGED <<kb_domain, kb_org, lastWrite>>
DoInsert(table, id, text, metadata, embedding) ==
    LET outcome == InsertOutcome(table, metadata, embedding)
        call == [name |-> "insertChunk", table |-> table, id |-> id, text |-> text,
                 metadata |-> metadata, embedding |-> embedding, outcome |-> outcome,
                 replaced |-> RowsUnder(table, id) # {},
                 before |-> RowsUnder(table, id)]
    IN  /\ op' = call
        /\ IF outcome = "ok"
           THEN LET rows == Upsert(table, Rows(table),
                                   NewRow(table, id, text, metadata, embedding))
                IN  /\ kb_org' = IF table = "kb_org" THEN rows ELSE kb_org
                    /\ kb_domain' = IF table = "kb_org" THEN kb_domain ELSE rows
                    /\ lastWrite' = [lastWrite EXCEPT ![table][id] =
                           [written |-> TRUE, id |-> id, text |-> text,
                            metadata |-> metadata, embedding |-> embedding]]
           ELSE UNCHANGED <<kb_domain, kb_org, lastWrite>>

----------------------------------------------------------------------------
(* db.js: searchOrg, searchDomain *)

RECURSIVE InnerProduct(_, _)
InnerProduct(a, b) ==
    IF a = <<>> \/ b = <<>> THEN 0
    ELSE Head(a) * Head(b) + InnerProduct(Tail(a), Tail(b))

\* embedding <#> query: pgvector's negative inner product
Distance(a, b) == 0 - InnerProduct(a, b)

\* the orders in which a scan can deliver the rows of a table
ScanOrders(rows) ==
    {f \in [1..Cardinality(rows) -> rows] : \A j, k \in 1..Cardinality(rows) : f[j] = f[k] => j = k}

\* the select list: id, text, metadata, (embedding <#> query) AS distance
Project(r, q) ==
    [id |-> r.id, text |-> r.text, metadata |-> r.metadata, distance |-> Distance(r.embedding, q)]

RECURSIVE InsertByDistance(_, _)
InsertByDistanceDescending(sorted, x) ==
    IF sorted = <<>> THEN <<x>>
    ELSE IF x.distance > Head(sorted).distance THEN <<x>> \o sorted
    ELSE <<Head(sorted)>> \o InsertByDistance(Tail(sorted), x)
InsertByDistance(sorted, x) ==
    IF sorted = <<>> THEN <<x>>
    ELSE IF x.distance < Head(sorted).distance THEN <<x>> \o sorted
    ELSE <<Head(sorted)>> \o InsertByDistance(Tail(sorted), x)

\* ORDER BY embedding <#> query
RECURSIVE OrderByDistance(_)
OrderByDistance(s) ==
    IF s = <<>> THEN <<>>
    ELSE InsertByDistance(OrderByDistance(SubSeq(s, 1, Len(s) - 1)), s[Len(s)])

\* LIMIT n
Limit(s, n) == SubSeq(s, 1, Min(n, Len(s)))

\* WHERE org_id = $1 (never true against NULL)
OrgFilterNone(r, orgParam) == TRUE
OrgFilter(r, orgParam) == orgParam # SqlNull /\ r.org_id = orgParam

\* the rows a search statement delivers from the scan, or its error
SearchOutcome(scanned, q, limit) ==
    IF limit < 0 THEN ErrNegativeLimit
    ELSE IF Len(q) # Dim /\ (scanned # <<>> \/ q = <<>>) THEN ErrDifferentDims
    ELSE "ok"

SelectRows(scanned, q, limit) ==
    Limit(OrderByDistance([k \in 1..Len(scanned) |-> Project(scanned[k], q)]), limit)

DefaultOrgLimit == 6
DefaultDomainLimit == 4
LimitOr(limit, default) == IF limit = Undefined THEN default ELSE limit.n

DoSearchOrg(orgId, queryEmbedding, limit, scan) ==
    LET call == [name |-> "searchOrg", orgId |-> orgId, queryEmbedding |-> queryEmbedding,
                 limit |-> limit]
    IN  IF ~IsArray(queryEmbedding)
        THEN op' = call @@ [outcome |-> ErrNotArray, rows |-> <<>>]
        ELSE LET q == toVectorLiteral(queryEmbedding)
                 n == LimitOr(limit, DefaultOrgLimit)
                 scanned == SelectSeq(scan, LAMBDA r : OrgFilter(r, PrepareValue(orgId)))
                 outcome == SearchOutcome(scanned, q, n)
             IN  op' = call @@ [outcome |-> outcome,
                                rows |-> IF outcome = "ok" THEN SelectRows(scanned, q, n) ELSE <<>>]

DoSearchDomain(queryEmbedding, limit, scan) ==
    LET call == [name |-> "searchDomain", queryEmbedding |-> queryEmbedding, limit |-> limit]
    IN  IF ~IsArray(queryEmbedding)
        THEN op' = call @@ [outcome |-> ErrNotArray, rows |-> <<>>]
        ELSE LET q == toVectorLiteral(queryEmbedding)
                 n == LimitOr(limit, DefaultDomainLimit)
                 outcome == SearchOutcome(scan, q, n)
             IN  op' = call @@ [outcome |-> outcome,
                                rows |-> IF outcome = "ok" THEN SelectRows(scan, q, n) ELSE <<>>]

----------------------------------------------------------------------------
(* The store under direct calls of insertChunk, searchOrg and searchDomain *)

Ids == 1..MaxIds

UnitVector(k, x, rest) == Arr([j \in 1..Dim |-> IF j = k THEN x ELSE rest])
EmbeddingA == UnitVector(1, Num(1), Num(0))
EmbeddingB == UnitVector(Dim, Num(2), Num(0))
EmbeddingLenient == UnitVector(1, Str("1"), Str("bad"))
EmbeddingTooLong == Arr([j \in 1..(Dim + 1) |-> Num(1)])
EmbeddingNotArray == Str("[1,0]")

Meta(source, org_id) == [source |-> Str(source), org_id |-> org_id]

\* the (text, metadata, embedding) arguments insertChunk is called with
ChunkArgs ==
    { [text |-> "t1", metadata |-> Meta("a.pdf", Str("orgA")), embedding |-> EmbeddingLenient],
      [text |-> "t2", metadata |-> Meta("b.pdf", Str("orgB")), embedding |-> EmbeddingB],
      [text |-> "t1", metadata |-> Meta("a.pdf", Undefined), embedding |-> EmbeddingA],
      [text |-> "t2", metadata |-> Meta("b.pdf", Str("orgB")), embedding |-> EmbeddingTooLong],
      [text |-> "t2", metadata |-> Meta("b.pdf", Undefined), embedding |-> EmbeddingNotArray] }

QueryArgs == {EmbeddingA, EmbeddingB, EmbeddingNotArray}
OrgIdArgs == {Str("orgA"), Str("orgB")}
LimitArgs == {Undefined, Num(-1), Num(0), Num(1)}

NoOp == [name |-> "none", outcome |-> "ok"]

IdleRun == [state |-> "idle"]
NoHistory == [order |-> <<>>, failed |-> <<>>]

InitStore ==
    /\ kb_domain = {}
    /\ kb_org = {}
    /\ op = NoOp
    /\ lastWrite = [t \in Tables |-> [id \in Ids |-> NoWrite]]
    /\ ml = IdleRun
    /\ mq = <<>>
    /\ hist = NoHistory
    /\ req = [state |-> "none"]

InsertChunk ==
    \E table \in Tables, id \in Ids, c \in ChunkArgs :
        /\ (RowsUnder(table, id) = {} => Cardinality(kb_domain) + Cardinality(kb_org) < MaxRows)
        /\ DoInsert(table, id, c.text, c.metadata, c.embedding)
        /\ UNCHANGED <<ml, mq, hist, req>>

SearchOrg ==
    \E orgId \in OrgIdArgs, queryEmbedding \in QueryArgs, limit \in LimitArgs,
       scan \in ScanOrders(kb_org) :
        /\ DoSearchOrg(orgId, queryEmbedding, limit, scan)
        /\ UNCHANGED <<kb_domain, kb_org, lastWrite, ml, mq, hist, req>>

SearchDomain ==
    \E queryEmbedding \in QueryArgs, limit \in LimitArgs, scan \in ScanOrders(kb_domain) :
        /\ DoSearchDomain(queryEmbedding, limit, scan)
        /\ UNCHANGED <<kb_domain, kb_org, lastWrite, ml, mq, hist, req>>

NextStore == InsertChunk \/ SearchOrg \/ SearchDomain

SpecStore == InitStore /\ [][NextStore]_vars

----------------------------------------------------------------------------
(* Ingestions that call insertChunk concurrently: each call sends its      *)
(* statement, and the server executes the statements it has received one   *)
(* at a time, in whatever order                                            *)

MaxWrites == 2     \* insertChunk calls made

\* the (text, metadata, embedding) arguments of the concurrent calls
ConcurrentArgs ==
    { [text |-> "t1", metadata |-> Meta("a.pdf", Str("orgA")), embedding |-> EmbeddingLenient],
      [text |-> "t2", metadata |-> Meta("b.pdf", Str("orgB")), embedding |-> EmbeddingB],
      [text |-> "t2", metadata |-> Meta("b.pdf", Undefined), embedding |-> EmbeddingNotArray] }

InitConcurrent ==
    /\ kb_domain = {}
    /\ kb_org = {}
    /\ op = NoOp
    /\ lastWrite = [t \in Tables |-> [id \in Ids |-> NoWrite]]
    /\ ml = IdleRun
    /\ mq = <<>>
    /\ hist = NoHistory
    /\ req = [state |-> "ingesting", issued |-> <<>>, pending |-> {}, applied |-> <<>>]

\* insertChunk up to its await: toVectorLiteral throws, or pool.query sends
\* the statement with its parameters
InsertChunkSend ==
    \E table \in Tables, id \in Ids, c \in ConcurrentArgs :
        /\ Len(req.issued) < MaxWrites
        /\ LET call == [table |-> table, id |-> id] @@ c
               n == Len(req.issued) + 1
           IN  IF ~IsArray(c.embedding)
               THEN /\ DoInsert(table, id, c.text, c.metadata, c.embedding)
                    /\ req' = [req EXCEPT !.issued = Append(@, call)]
               ELSE /\ req' = [req EXCEPT !.issued = Append(@, call), !.pending = @ \cup {n}]
                    /\ UNCHANGED <<kb_domain, kb_org, op, lastWrite>>
        /\ UNCHANGED <<ml, mq, hist>>

\* the server executes one of the statements it holds: INSERT ... ON CONFLICT
\* (id) DO UPDATE is one statement, applied to the row as a whole
InsertChunkExecute ==
    \E n \in req.pending :
        /\ LET c == req.issued[n]
           IN  DoInsert(c.table, c.id, c.text, c.metadata, c.embedding)
        /\ req' = [req EXCEPT !.pending = @ \ {n}, !.applied = Append(@, n)]
        /\ UNCHANGED <<ml, mq, hist>>

NextConcurrent == InsertChunkSend \/ InsertChunkExecute

SpecConcurrent == InitConcurrent /\ [][NextConcurrent]_vars

----------------------------------------------------------------------------
(* index.js: mapLimit *)

Hole == [type |-> "hole"]
Pending == [state |-> "pending"]
OutRef == [ref |-> "out"]

Length(array) == Cardinality(DOMAIN array)

\* what the worker of the run returns for an item, and what it throws
WorkerResult(item, idx) == [result |-> item, idx |-> idx]
WorkerError(idx) == [error |-> "worker failed", idx |-> idx]

\* const out = new Array(items.length); let i = 0, inFlight = 0; new Promise(...)
NewRun(items, limit) ==
    [state |-> "called", items |-> items, limit |-> limit,
     out |-> [k \in DOMAIN items |-> Hole], i |-> 0, inFlight |-> 0,
     promise |-> Pending, started |-> <<>>,
     worker |-> [k \in DOMAIN items |-> "notStarted"]]

\* resolve and reject of the returned promise: only the first call settles it
Resolve(m, v) ==
    IF m.promise = Pending THEN [m EXCEPT !.promise = [state |-> "fulfilled", value |-> v]] ELSE m
Reject(m, e) ==
    IF m.promise = Pending THEN [m EXCEPT !.promise = [state |-> "rejected", value |-> e]] ELSE m

\* while (inFlight < limit && i < items.length) { const idx = i++; inFlight++; fn(items[idx], idx) ... }
RECURSIVE Dispatch(_)
RECURSIVE DispatchOneMore(_)
DispatchOneMore(m) ==
    IF m.inFlight <= m.limit /\ m.i < Length(m.items)
    THEN DispatchOneMore([m EXCEPT !.worker[m.i] = "running", !.started = Append(@, m.i),
                                   !.i = @ + 1, !.inFlight = @ + 1])
    ELSE m
Dispatch(m) ==
    IF m.inFlight < m.limit /\ m.i < Length(m.items)
    THEN Dispatch([m EXCEPT !.worker[m.i] = "running", !.started = Append(@, m.i),
                                   !.i = @ + 1, !.inFlight = @ + 1])
    ELSE m

\* const next = () => { if (i >= items.length && inFlight === 0) return resolve(out); while ... }
nextIgnoringInFlight(m) ==
    IF m.i >= Length(m.items) THEN Resolve(m, OutRef) ELSE Dispatch(m)
next(m) ==
    IF m.i >= Length(m.items) /\ m.inFlight = 0 THEN Resolve(m, OutRef) ELSE Dispatch(m)

\* .then(v => { out[idx] = v; })
StoreResultAtEnd(m, idx, v) ==
    [m EXCEPT !.out[Cardinality({k \in DOMAIN m.out : m.out[k] # Hole})] = v]
StoreResult(m, idx, v) == [m EXCEPT !.out[idx] = v]

\* .catch(reject)
CatchHandlerSwallow(m, e) == m
CatchHandler(m, e) == Reject(m, e)

\* .finally(() => { inFlight--; next(); })
FinallyHandlerStopOnReject(m) ==
    IF m.promise.state = "rejected" THEN [m EXCEPT !.inFlight = @ - 1]
    ELSE next([m EXCEPT !.inFlight = @ - 1])
FinallyHandlerDecrementTwice(m) == next([m EXCEPT !.inFlight = @ - 2])
FinallyHandler(m) == next([m EXCEPT !.inFlight = @ - 1])

Reaction(idx, stage, settled, value) ==
    [idx |-> idx, stage |-> stage, settled |-> settled, value |-> value]

\* the indices of the run's items
Indices(m) == IF m.state = "called" THEN DOMAIN m.worker ELSE {}

\* the invocations that were started and whose promise has not settled
Running(m) == {k \in DOMAIN m.worker : m.worker[k] \notin {"notStarted", "fulfilled", "rejected"}}

\* nothing is left to run: no worker is in flight and no reaction is queued
Quiescent == ml.state = "called" /\ Running(ml) = {} /\ mq = <<>>

----------------------------------------------------------------------------
(* One mapLimit run with a worker that settles whenever and however it likes *)

ItemList(n) == [k \in 0..(n - 1) |-> IF k % 2 = 0 THEN "a" ELSE "b"]

InitMapLimit ==
    /\ kb_domain = {}
    /\ kb_org = {}
    /\ op = NoOp
    /\ lastWrite = [t \in Tables |-> [id \in Ids |-> NoWrite]]
    /\ ml \in {[state |-> "idle", items |-> ItemList(n), limit |-> l] :
                 n \in 0..MaxItems, l \in (0 - 1)..MaxLimit}
    /\ mq = <<>>
    /\ hist = NoHistory
    /\ req = [state |-> "none"]

\* mapLimit(items, limit, fn): the executor runs next() before the promise is returned
MapLimitCall ==
    /\ ml.state = "idle"
    /\ ml' = next(NewRun(ml.items, ml.limit))
    /\ UNCHANGED <<kb_domain, kb_org, op, lastWrite, mq, hist, req>>

\* the promise fn returned for item idx fulfils
WorkerFulfil ==
    \E idx \in Indices(ml) :
        /\ ml.state = "called"
        /\ ml.worker[idx] = "running"
        /\ ml' = [ml EXCEPT !.worker[idx] = "fulfilled"]
        /\ mq' = Append(mq, Reaction(idx, "then", "fulfilled", WorkerResult(ml.items[idx], idx)))
        /\ hist' = [hist EXCEPT !.order = Append(@, idx)]
        /\ UNCHANGED <<kb_domain, kb_org, op, lastWrite, req>>

\* the promise fn returned for item idx rejects
WorkerReject ==
    \E idx \in Indices(ml) :
        /\ ml.state = "called"
        /\ ml.worker[idx] = "running"
        /\ ml' = [ml EXCEPT !.worker[idx] = "rejected"]
        /\ mq' = Append(mq, Reaction(idx, "then", "rejected", WorkerError(idx)))
        /\ hist' = [hist EXCEPT !.order = Append(@, idx), !.failed = Append(@, idx)]
        /\ UNCHANGED <<kb_domain, kb_org, op, lastWrite, req>>

\* the reaction of .then: store the value, or pass the rejection on
ThenReaction ==
    /\ mq # <<>> /\ Head(mq).stage = "then"
    /\ LET r == Head(mq)
       IN  IF r.settled = "fulfilled"
           THEN /\ ml' = StoreResult(ml, r.idx, r.value)
                /\ mq' = Append(Tail(mq), Reaction(r.idx, "catch", "fulfilled", Undefined))
           ELSE /\ ml' = ml
                /\ mq' = Append(Tail(mq), Reaction(r.idx, "catch", "rejected", r.value))
    /\ UNCHANGED <<kb_domain, kb_org, op, lastWrite, hist, req>>

\* the reaction of .catch: reject the returned promise, or pass the value on
CatchReaction ==
    /\ mq # <<>> /\ Head(mq).stage = "catch"
    /\ LET r == Head(mq)
       IN  /\ ml' = IF r.settled = "rejected" THEN CatchHandler(ml, r.value) ELSE ml
           /\ mq' = Append(Tail(mq), Reaction(r.idx, "finally", "fulfilled", Undefined))
    /\ UNCHANGED <<kb_domain, kb_org, op, lastWrite, hist, req>>

\* the reaction of .finally: inFlight--, next()
FinallyReaction ==
    /\ mq # <<>> /\ Head(mq).stage = "finally"
    /\ ml' = FinallyHandler(ml)
    /\ mq' = Tail(mq)
    /\ UNCHANGED <<kb_domain, kb_org, op, lastWrite, hist, req>>

NextMapLimit ==
    MapLimitCall \/ WorkerFulfil \/ WorkerReject \/ ThenReaction \/ CatchReaction \/ FinallyReaction

SpecMapLimit == InitMapLimit /\ [][NextMapLimit]_vars

\* the call is made, promise reactions run, and every invocation that is
\* running settles: the premise under which the run is followed to its end
SpecMapLimitFair ==
    /\ SpecMapLimit
    /\ WF_vars(MapLimitCall) /\ WF_vars(WorkerFulfil \/ WorkerReject)
    /\ WF_vars(ThenReaction) /\ WF_vars(CatchReaction) /\ WF_vars(FinallyReaction)

----------------------------------------------------------------------------
(* chunk.js: the windows of chunkText *)

MaxTokens == 700
OverlapTokens == 120

Max(a, b) == IF a >= b THEN a ELSE b

\* while (i < words.length) { words.slice(i, i + maxTokens) ...; i += Math.max(1, maxTokens - overlapTokens) }
\* as the windows [from, to) over the word indices
RECURSIVE Windows(_, _, _, _)
Windows(i, nWords, maxTokens, overlapTokens) ==
    IF i < nWords
    THEN <<[from |-> i, to |-> Min(i + maxTokens, nWords)]>>
         \o Windows(i + Max(1, maxTokens - overlapTokens), nWords, maxTokens, overlapTokens)
    ELSE <<>>

\* the chunks of a text of nWords words, as an array indexed from 0
ChunksOf(nWords) ==
    LET w == Windows(0, nWords, MaxTokens, OverlapTokens)
    IN  [k \in 0..(Len(w) - 1) |-> w[k + 1]]

----------------------------------------------------------------------------
(* index.js: POST /upload.  The responses of the embedding service and of   *)
(* the store arrive as I/O events: each is handled, and the promise         *)
(* reactions it queues are run, before the next one is taken.               *)

Response(status, body) == [status |-> status, body |-> body]

\* the checks of the handler before any work is done; "ok" when they pass
ValidationNoOrgIdCheck(layer, org_id, file, nWords) ==
    IF ~Truthy(layer) \/ layer \notin {Str("domain"), Str("org")}
    THEN "Missing or invalid ?layer=domain|org"
    ELSE IF ~file THEN "No file uploaded (field name must be \"file\")"
    ELSE IF nWords = 0 THEN "Uploaded file contains no extractable text"
    ELSE "ok"
Validation(layer, org_id, file, nWords) ==
    IF ~Truthy(layer) \/ layer \notin {Str("domain"), Str("org")}
    THEN "Missing or invalid ?layer=domain|org"
    ELSE IF layer = Str("org") /\ ~Truthy(org_id) THEN "Missing ?org_id=..."
    ELSE IF ~file THEN "No file uploaded (field name must be \"file\")"
    ELSE IF nWords = 0 THEN "Uploaded file contains no extractable text"
    ELSE "ok"

\* const metadata = { source, layer, org_id: layer === 'org' ? org_id : undefined, part, total_parts, kb_version }
UploadMetadata(layer, org_id, idx, total) ==
    [source |-> Str("file"), layer |-> layer,
     org_id |-> IF layer = Str("org") THEN org_id ELSE Undefined,
     part |-> Num(idx + 1), total_parts |-> Num(total), kb_version |-> Str("date")]

ErrorOf(message, idx) == [error |-> message, idx |-> idx]
ErrEmbed == "embed failed"

\* const { layer, org_id } = req.query
Query(layer, org_id) == [layer |-> layer, org_id |-> org_id]
UploadQueries ==
    { Query(Undefined, Undefined), Query(Str("other"), Str("orgA")),
      Query(Str("domain"), Undefined), Query(Str("domain"), Str("orgA")),
      Query(Str("org"), Undefined), Query(Str("org"), Str("")),
      Query(Str("org"), Str("orgA")), Query(Str("org"), Arr(<<Str("")>>)) }
TextLengths == {0} \cup {1 + (MaxTokens - OverlapTokens) * (c - 1) : c \in 1..MaxChunks}
EmbedResults == {EmbeddingA, Undefined}
UploadIds == 1..(MaxUploads * MaxChunks)

\* EMBED_CONCURRENCY = parseInt(process.env.EMBED_CONCURRENCY || '3', 10)
DefaultEmbedConcurrency == 3
EmbedConcurrencyValues == {0, 1, DefaultEmbedConcurrency}

\* uuidv4(): an id no other chunk has
Uuid(served, idx) == (served - 1) * MaxChunks + idx + 1

NoRequest == [state |-> "none", served |-> 0, chunked |-> 0]

InitUpload ==
    /\ kb_domain = {}
    /\ kb_org = {}
    /\ op = NoOp
    /\ lastWrite = [t \in Tables |-> [id \in UploadIds |-> NoWrite]]
    /\ ml \in {[state |-> "idle", limit |-> l] : l \in EmbedConcurrencyValues}
    /\ mq = <<>>
    /\ hist = NoHistory
    /\ req = NoRequest

\* app.post('/upload'): validation, extractText, chunkText, and the call of mapLimit
UploadRequest ==
    \E query \in UploadQueries, file \in BOOLEAN, nWords \in TextLengths :
        /\ req.state \in {"none", "responded"}
        /\ ml.state = "idle" \/ Quiescent
        /\ req.served < MaxUploads
        /\ req.chunked + Length(ChunksOf(nWords)) <= MaxTotalChunks
        /\ LET layer == query.layer
               org_id == query.org_id
               check == Validation(layer, org_id, file, nWords)
               chunks == ChunksOf(nWords)
           IN  IF check # "ok"
               THEN /\ req' = [state |-> "responded", served |-> req.served + 1,
                               chunked |-> req.chunked,
                               response |-> Response(400, [error |-> check])]
                    /\ UNCHANGED <<ml, mq, hist>>
               ELSE /\ req' = [state |-> "running", served |-> req.served + 1,
                               chunked |-> req.chunked + Length(chunks),
                               layer |-> layer, org_id |-> org_id, chunks |-> chunks,
                               table |-> IF layer = Str("org") THEN "kb_org" ELSE "kb_domain",
                               stored |-> [k \in DOMAIN chunks |-> Hole], okCount |-> 0,
                               calls |-> [k \in DOMAIN chunks |-> Hole],
                               embeds |-> [k \in DOMAIN chunks |-> "pending"]]
                    /\ ml' = next(NewRun(chunks, ml.limit))
                    /\ mq' = <<>>
                    /\ hist' = NoHistory
        /\ UNCHANGED <<kb_domain, kb_org, op, lastWrite>>

\* a worker fails: its promise rejects
WorkerFails(idx, message) ==
    /\ ml' = [ml EXCEPT !.worker[idx] = "rejected"]
    /\ mq' = Append(mq, Reaction(idx, "then", "rejected", ErrorOf(message, idx)))
    /\ hist' = [hist EXCEPT !.order = Append(@, idx), !.failed = Append(@, idx)]

\* const vec = await embed(ch) returns; id = uuidv4(); metadata = ...; insertChunk(...) is
\* called: toVectorLiteral throws, or the statement is sent
EmbedFulfil ==
    \E idx \in Indices(ml), vec \in EmbedResults :
        /\ mq = <<>>
        /\ req.state \in {"running", "responded"}
        /\ ml.state = "called" /\ ml.worker[idx] = "running"
        /\ IF ~IsArray(vec)
           THEN /\ WorkerFails(idx, ErrNotArray)
                /\ req' = [req EXCEPT !.embeds[idx] = "fulfilled"]
           ELSE /\ ml' = [ml EXCEPT !.worker[idx] = "inserting"]
                /\ req' = [req EXCEPT
                            !.embeds[idx] = "fulfilled",
                            !.calls[idx] = [id |-> Uuid(req.served, idx), text |-> req.chunks[idx],
                                           metadata |-> UploadMetadata(req.layer, req.org_id, idx,
                                                                       Length(req.chunks)),
                                           embedding |-> vec]]
                /\ UNCHANGED <<mq, hist>>
        /\ UNCHANGED <<kb_domain, kb_org, op, lastWrite>>

\* await embed(ch) throws: the worker's promise rejects, insertChunk is not reached
EmbedRejectStoresAnyway ==
    \E idx \in Indices(ml) :
        /\ mq = <<>>
        /\ req.state \in {"running", "responded"}
        /\ ml.state = "called" /\ ml.worker[idx] = "running"
        /\ ml' = [ml EXCEPT !.worker[idx] = "inserting"]
        /\ req' = [req EXCEPT
                    !.embeds[idx] = "rejected",
                    !.calls[idx] = [id |-> Uuid(req.served, idx), text |-> req.chunks[idx],
                                   metadata |-> UploadMetadata(req.layer, req.org_id, idx,
                                                               Length(req.chunks)),
                                   embedding |-> EmbeddingA]]
        /\ UNCHANGED <<kb_domain, kb_org, op, lastWrite, mq, hist>>
EmbedReject ==
    \E idx \in Indices(ml) :
        /\ mq = <<>>
        /\ req.state \in {"running", "responded"}
        /\ ml.state = "called" /\ ml.worker[idx] = "running"
        /\ WorkerFails(idx, ErrEmbed)
        /\ req' = [req EXCEPT !.embeds[idx] = "rejected"]
        /\ UNCHANGED <<kb_domain, kb_org, op, lastWrite>>

\* the store executes the statement of insertChunk
QueryExecute ==
    \E idx \in Indices(ml) :
        /\ mq = <<>>
        /\ ml.state = "called" /\ ml.worker[idx] = "inserting"
        /\ LET c == req.calls[idx]
           IN  /\ DoInsert(req.table, c.id, c.text, c.metadata, c.embedding)
               /\ IF InsertOutcome(req.table, c.metadata, c.embedding) = "ok"
                  THEN /\ ml' = [ml EXCEPT !.worker[idx] = "inserted"]
                       /\ UNCHANGED <<mq, hist>>
                  ELSE WorkerFails(idx, InsertOutcome(req.table, c.metadata, c.embedding))
        /\ UNCHANGED req

\* await insertChunk(...) returns: stored[idx] = { id, part: idx + 1 }; okCount++
InsertReturnPush ==
    \E idx \in Indices(ml) :
        /\ mq = <<>>
        /\ ml.state = "called" /\ ml.worker[idx] = "inserted"
        /\ req' = [req EXCEPT !.stored[req.okCount] = [id |-> req.calls[idx].id, part |-> idx + 1],
                              !.okCount = @ + 1]
        /\ ml' = [ml EXCEPT !.worker[idx] = "fulfilled"]
        /\ mq' = Append(mq, Reaction(idx, "then", "fulfilled", Undefined))
        /\ hist' = [hist EXCEPT !.order = Append(@, idx)]
        /\ UNCHANGED <<kb_domain, kb_org, op, lastWrite>>
InsertReturn ==
    \E idx \in Indices(ml) :
        /\ mq = <<>>
        /\ ml.state = "called" /\ ml.worker[idx] = "inserted"
        /\ req' = [req EXCEPT !.stored[idx] = [id |-> req.calls[idx].id, part |-> idx + 1],
                              !.okCount = @ + 1]
        /\ ml' = [ml EXCEPT !.worker[idx] = "fulfilled"]
        /\ mq' = Append(mq, Reaction(idx, "then", "fulfilled", Undefined))
        /\ hist' = [hist EXCEPT !.order = Append(@, idx)]
        /\ UNCHANGED <<kb_domain, kb_org, op, lastWrite>>

\* the chunks: stored.filter(Boolean)
RECURSIVE FilterStored(_, _)
FilterStored(stored, k) ==
    IF k >= Length(stored) THEN <<>>
    ELSE (IF stored[k] = Hole THEN <<>> ELSE <<stored[k]>>) \o FilterStored(stored, k + 1)

\* the rows the current upload has written
UploadRows(rows) == {r \in rows : \E k \in DOMAIN req.chunks : r.id = Uuid(req.served, k)}

\* await mapLimit(...) returns or throws: res.json(...) or res.status(500)
UploadRespondRollback ==
    /\ req.state = "running"
    /\ ml.state = "called" /\ ml.promise # Pending
    /\ mq = <<>>
    /\ req' = [state |-> "responded",
                response |->
                    IF ml.promise.state = "fulfilled"
                    THEN Response(200, [ok |-> TRUE, table |-> req.table,
                                        parts |-> req.okCount, failed |-> 0,
                                        chunks |-> FilterStored(req.stored, 0)])
                    ELSE Response(500, [error |-> ml.promise.value.error])] @@ req
    /\ kb_domain' = IF ml.promise.state = "fulfilled" THEN kb_domain
                    ELSE kb_domain \ UploadRows(kb_domain)
    /\ kb_org' = IF ml.promise.state = "fulfilled" THEN kb_org ELSE kb_org \ UploadRows(kb_org)
    /\ UNCHANGED <<op, lastWrite, ml, mq, hist>>
UploadRespond ==
    /\ req.state = "running"
    /\ ml.state = "called" /\ ml.promise # Pending
    /\ mq = <<>>
    /\ req' = [state |-> "responded",
                response |->
                    IF ml.promise.state = "fulfilled"
                    THEN Response(200, [ok |-> TRUE, table |-> req.table,
                                        parts |-> req.okCount, failed |-> 0,
                                        chunks |-> FilterStored(req.stored, 0)])
                    ELSE Response(500, [error |-> ml.promise.value.error])] @@ req
    /\ UNCHANGED <<kb_domain, kb_org, op, lastWrite, ml, mq, hist>>

NextUpload ==
    \/ UploadRequest \/ EmbedFulfil \/ EmbedReject \/ QueryExecute \/ InsertReturn
    \/ ThenReaction \/ CatchReaction \/ FinallyReaction \/ UploadRespond

SpecUpload == InitUpload /\ [][NextUpload]_vars

----------------------------------------------------------------------------
(* llm.js: the providers and generateLLM *)

\* the keys of PROVIDERS
PROVIDERS == {"OLLAMA", "GROQ", "OPENAI", "MISTRAL"}

\* String.prototype.toUpperCase on the provider names tried
ToUpperCase(s) ==
    CASE s = "ollama" -> "OLLAMA"
      [] s = "groq" -> "GROQ"
      [] s = "foo" -> "FOO"
      [] OTHER -> s

ErrUnsupported(provider) == <<"Unsupported provider: ", provider>>

\* the endpoint generateLLM posts to for an upper-cased provider; "none" when
\* no branch matches and it throws
EndpointOfOrOllama(provider) ==
    CASE provider = "GROQ" -> "api.groq.com"
      [] provider = "OPENAI" -> "api.openai.com"
      [] provider = "MISTRAL" -> "api.mistral.ai"
      [] OTHER -> "OLLAMA_URL"
EndpointOf(provider) ==
    CASE provider = "OLLAMA" -> "OLLAMA_URL"
      [] provider = "GROQ" -> "api.groq.com"
      [] provider = "OPENAI" -> "api.openai.com"
      [] provider = "MISTRAL" -> "api.mistral.ai"
      [] OTHER -> "none"

HttpPost(endpoint, provider) == [call |-> "axios.post", endpoint |-> endpoint, provider |-> provider]

\* generateLLM up to its await: the HTTP requests it issues and, when it
\* throws before any, its error
generateLLM(provider) ==
    LET p == ToUpperCase(provider)
        endpoint == EndpointOf(p)
    IN  IF endpoint = "none"
        THEN [calls |-> <<>>, outcome |-> ErrUnsupported(p)]
        ELSE [calls |-> <<HttpPost(endpoint, p)>>, outcome |-> "pending"]

----------------------------------------------------------------------------
(* index.js: POST /ask *)

DefaultK1 == 3
DefaultK2 == 3
DefaultMaxCtx == 4

\* a destructuring default: it applies to undefined only
OrDefault(v, default) == IF v = Undefined THEN default ELSE v

\* a.distance ?? 0
DistanceOrZero(a) == IF "distance" \in DOMAIN a THEN a.distance ELSE 0

\* Array.prototype.sort with (a, b) => (a.distance ?? 0) - (b.distance ?? 0): stable
RECURSIVE InsertSnippet(_, _)
RECURSIVE InsertSnippetBeforeEqual(_, _)
InsertSnippetBeforeEqual(sorted, x) ==
    IF sorted = <<>> THEN <<x>>
    ELSE IF DistanceOrZero(x) - DistanceOrZero(Head(sorted)) <= 0 THEN <<x>> \o sorted
    ELSE <<Head(sorted)>> \o InsertSnippetBeforeEqual(Tail(sorted), x)
InsertSnippet(sorted, x) ==
    IF sorted = <<>> THEN <<x>>
    ELSE IF DistanceOrZero(x) - DistanceOrZero(Head(sorted)) < 0 THEN <<x>> \o sorted
    ELSE <<Head(sorted)>> \o InsertSnippet(Tail(sorted), x)

RECURSIVE Sort(_)
Sort(s) == IF s = <<>> THEN <<>> ELSE InsertSnippet(Sort(SubSeq(s, 1, Len(s) - 1)), s[Len(s)])

\* Array.prototype.slice(0, end): a negative end counts from the end
Slice(s, end) ==
    SubSeq(s, 1, IF end < 0 THEN Max(Len(s) + end, 0) ELSE Min(end, Len(s)))

\* [...orgSnips, ...domainSnips].sort(...).slice(0, max_ctx)
ContextSnippetsUnsorted(orgSnips, domainSnips, max_ctx) ==
    Slice(orgSnips \o domainSnips, max_ctx)
ContextSnippets(orgSnips, domainSnips, max_ctx) ==
    Slice(Sort(orgSnips \o domainSnips), max_ctx)

\* Promise.all over two promises: each value is kept at the position of its
\* promise; the last one to arrive fulfils the result
PromiseAll == [values |-> <<Hole, Hole>>, done |-> {}, promise |-> Pending]
ResolveElementInCompletionOrder(all, index, value) ==
    LET values == [all.values EXCEPT ![Cardinality(all.done) + 1] = value]
        done == all.done \cup {index}
    IN  [values |-> values, done |-> done,
         promise |-> IF done = {1, 2} /\ all.promise = Pending
                     THEN [state |-> "fulfilled", value |-> values] ELSE all.promise]
ResolveElement(all, index, value) ==
    LET values == [all.values EXCEPT ![index] = value]
        done == all.done \cup {index}
    IN  [values |-> values, done |-> done,
         promise |-> IF done = {1, 2} /\ all.promise = Pending
                     THEN [state |-> "fulfilled", value |-> values] ELSE all.promise]

\* req.body of a /ask request
AskBody(provider, question, org_id, k1, k2, max_ctx) ==
    [provider |-> provider, question |-> question, org_id |-> org_id,
     k1 |-> k1, k2 |-> k2, max_ctx |-> max_ctx]
AskBodies ==
    { AskBody(Str("FOO"), Str("q"), Str("orgA"), Undefined, Undefined, Undefined),
      AskBody(Str("foo"), Undefined, Undefined, Undefined, Undefined, Undefined),
      AskBody(Undefined, Undefined, Str("orgA"), Undefined, Undefined, Undefined),
      AskBody(Str("groq"), Str("q"), Str("orgA"), Undefined, Undefined, Undefined),
      AskBody(Undefined, Str("q"), Str("orgA"), Num(2), Num(2), Num(3)),
      AskBody(Undefined, Str("q"), Undefined, Undefined, Num(1), Num(0)),
      AskBody(Str("OPENAI"), Str("q"), Str("orgA"), Num(1), Num(-1), Undefined),
      AskBody(Str("MISTRAL"), Str("q"), Str("orgB"), Undefined, Undefined, Num(1)) }

\* process.env.PROVIDER
EnvProviders == {Undefined, Str("BAR")}

\* data.embedding of the embedding service's reply
AskEmbedResults == {EmbeddingA, Undefined}

\* the tables as uploads have left them
StoredRow(table, id, org_id, x) ==
    NewRow(table, id, "t", UploadMetadata(Str(IF table = "kb_org" THEN "org" ELSE "domain"), org_id, 0, 1),
           UnitVector(1, Num(x), Num(0)))
AskStores ==
    { [kb_org |-> {}, kb_domain |-> {}],
      [kb_org |-> {StoredRow("kb_org", 1, Str("orgA"), -9), StoredRow("kb_org", 2, Str("orgA"), -1)},
       kb_domain |-> {StoredRow("kb_domain", 3, Undefined, -5), StoredRow("kb_domain", 4, Undefined, -3)}],
      [kb_org |-> {StoredRow("kb_org", 1, Str("orgA"), 1), StoredRow("kb_org", 2, Str("orgB"), 2)},
       kb_domain |-> {StoredRow("kb_domain", 3, Undefined, 1), StoredRow("kb_domain", 4, Undefined, 1)}] }

ErrQuestion == "question is required"
ErrTimeout == "timed out"
ErrService == "request failed"

\* reqProvider || process.env.PROVIDER || 'OLLAMA'
ProviderOf(reqProvider, env) ==
    IF Truthy(reqProvider) THEN reqProvider.s ELSE IF Truthy(env) THEN env.s ELSE "OLLAMA"

InitAsk ==
    /\ \E store \in AskStores : kb_org = store.kb_org /\ kb_domain = store.kb_domain
    /\ op = NoOp
    /\ lastWrite = [t \in Tables |-> [id \in Ids |-> NoWrite]]
    /\ ml = IdleRun
    /\ mq = <<>>
    /\ hist = NoHistory
    /\ \E env \in EnvProviders : req = [state |-> "none", env |-> env]

\* app.post('/ask') up to its first await: the provider and question checks, the embed call
AskRequest ==
    \E body \in AskBodies :
        /\ req.state = "none"
        /\ LET provider == ToUpperCase(ProviderOf(body.provider, req.env))
               call == [body |-> body, provider |-> provider]
           IN  req' =
                 IF provider \notin PROVIDERS
                 THEN [state |-> "responded", calls |-> <<>>,
                       response |-> Response(400, [error |-> ErrUnsupported(provider)])]
                      @@ call @@ req
                 ELSE IF ~Truthy(body.question)
                 THEN [state |-> "responded", calls |-> <<>>,
                       response |-> Response(400, [error |-> ErrQuestion])] @@ call @@ req
                 ELSE [state |-> "embed", calls |-> <<"embed">>] @@ call @@ req
        /\ UNCHANGED <<kb_domain, kb_org, op, lastWrite, ml, mq, hist>>

\* the catch block: res.status(500).json({ error })
AskFails(r, error) ==
    [state |-> "responded", response |-> Response(500, [error |-> error])] @@ r

\* embed resolves: both searches are started; with a qvec that is no array
\* toVectorLiteral throws in each before any query is sent
AskEmbedFulfil ==
    \E qvec \in AskEmbedResults :
        /\ req.state = "embed"
        /\ req' =
             IF ~IsArray(qvec) THEN AskFails(req, ErrNotArray)
             ELSE IF Truthy(req.body.org_id)
             THEN [state |-> "search", qvec |-> qvec, all |-> PromiseAll, order |-> <<>>,
                   found |-> <<<<>>, <<>>>>,
                   calls |-> req.calls \o <<"searchOrg", "searchDomain">>] @@ req
             ELSE [state |-> "search", qvec |-> qvec, order |-> <<>>,
                   found |-> <<<<>>, <<>>>>,
                   all |-> ResolveElement(PromiseAll, 1, <<>>),
                   calls |-> req.calls \o <<"searchDomain">>] @@ req
        /\ UNCHANGED <<kb_domain, kb_org, op, lastWrite, ml, mq, hist>>

\* embed rejects or its step times out
AskEmbedReject ==
    \E error \in {ErrService, ErrTimeout} :
        /\ req.state = "embed"
        /\ req' = AskFails(req, error)
        /\ UNCHANGED <<kb_domain, kb_org, op, lastWrite, ml, mq, hist>>

\* prompt.js renderPrompt: one line per snippet, labelled by its source or else its id
renderPrompt(contextSnippets, question) ==
    [context |-> [k \in 1..Len(contextSnippets) |->
                    LET s == contextSnippets[k]
                    IN  [src |-> IF Truthy(Prop(s.metadata, "source"))
                                 THEN s.metadata.source ELSE s.id,
                         body |-> s.text]],
     question |-> question]

\* after await Promise.all: the merge, the prompt and the call of generateLLM
AskBuildAndGenerate(r, all) ==
    LET orgSnips == all.promise.value[1]
        domainSnips == all.promise.value[2]
        contextSnippets ==
            ContextSnippets(orgSnips, domainSnips, OrDefault(r.body.max_ctx, Num(DefaultMaxCtx)).n)
        prompt == renderPrompt(contextSnippets, r.body.question)
        g == generateLLM(r.provider)
    IN  IF g.outcome # "pending"
        THEN AskFails([all |-> all, orgSnips |-> orgSnips, domainSnips |-> domainSnips,
                       contextSnippets |-> contextSnippets] @@ r, g.outcome)
        ELSE [state |-> "generate", all |-> all, orgSnips |-> orgSnips,
              domainSnips |-> domainSnips, contextSnippets |-> contextSnippets,
              prompt |-> prompt, calls |-> r.calls \o g.calls] @@ r

\* a search settles: a failure rejects Promise.all and the request fails; the
\* second result to arrive lets the handler go on
AskSearchSettles(r, index, name, outcome, rows) ==
    IF outcome # "ok" THEN AskFails([order |-> Append(r.order, name)] @@ r, outcome)
    ELSE LET all == ResolveElement(r.all, index, rows)
             s == [order |-> Append(r.order, name), found |-> [r.found EXCEPT ![index] = rows]] @@ r
         IN  IF all.promise = Pending THEN [all |-> all] @@ s
             ELSE AskBuildAndGenerate(s, all)

\* the reply of the store to searchOrg
AskSearchOrgReturn ==
    \E scan \in ScanOrders(kb_org) :
        /\ req.state = "search"
        /\ Truthy(req.body.org_id)
        /\ 1 \notin req.all.done
        /\ DoSearchOrg(req.body.org_id, req.qvec, OrDefault(req.body.k1, Num(DefaultK1)), scan)
        /\ req' = AskSearchSettles(req, 1, "searchOrg", op'.outcome, op'.rows)
        /\ UNCHANGED <<kb_domain, kb_org, lastWrite, ml, mq, hist>>

\* the reply of the store to searchDomain
AskSearchDomainReturn ==
    \E scan \in ScanOrders(kb_domain) :
        /\ req.state = "search"
        /\ 2 \notin req.all.done
        /\ DoSearchDomain(req.qvec, OrDefault(req.body.k2, Num(DefaultK2)), scan)
        /\ req' = AskSearchSettles(req, 2, "searchDomain", op'.outcome, op'.rows)
        /\ UNCHANGED <<kb_domain, kb_org, lastWrite, ml, mq, hist>>

\* the step of a search that has not returned times out
AskSearchTimeout ==
    \E index \in {1, 2} :
        /\ req.state = "search"
        /\ index \notin req.all.done
        /\ req' = AskFails(req, ErrTimeout)
        /\ UNCHANGED <<kb_domain, kb_org, op, lastWrite, ml, mq, hist>>

\* generateLLM resolves: res.json({ answer, used, context, timings_ms })
AskGenerateFulfil ==
    /\ req.state = "generate"
    /\ req' = [state |-> "responded",
               response |-> Response(200,
                  [answer |-> "answer",
                   used |-> [provider |-> req.provider,
                             org_id |-> IF Truthy(req.body.org_id) THEN req.body.org_id ELSE Null,
                             org_hits |-> Len(req.orgSnips),
                             domain_hits |-> Len(req.domainSnips)],
                   context |-> [k \in 1..Len(req.contextSnippets) |->
                                  [id |-> req.contextSnippets[k].id,
                                   source |-> Prop(req.contextSnippets[k].metadata, "source"),
                                   distance |-> req.contextSnippets[k].distance]]])] @@ req
    /\ UNCHANGED <<kb_domain, kb_org, op, lastWrite, ml, mq, hist>>

\* generateLLM rejects or its step times out
AskGenerateReject ==
    \E error \in {ErrService, ErrTimeout} :
        /\ req.state = "generate"
        /\ req' = AskFails(req, error)
        /\ UNCHANGED <<kb_domain, kb_org, op, lastWrite, ml, mq, hist>>

\* a direct call of generateLLM, up to its await
GenerateLLMProviders == {"OLLAMA", "groq", "OPENAI", "MISTRAL", "FOO", "foo"}
GenerateLLMCall ==
    \E provider \in GenerateLLMProviders :
        /\ op.name # "generateLLM" \/ op.outcome # "pending"
        /\ op' = [name |-> "generateLLM", provider |-> provider] @@ generateLLM(provider)
        /\ UNCHANGED <<kb_domain, kb_org, lastWrite, ml, mq, hist, req>>

\* the provider's reply to a direct call, or its failure
GenerateLLMReturn ==
    \E outcome \in {"ok", ErrService} :
        /\ op.name = "generateLLM" /\ op.outcome = "pending"
        /\ op' = [op EXCEPT !.outcome = outcome]
        /\ UNCHANGED <<kb_domain, kb_org, lastWrite, ml, mq, hist, req>>

NextAsk ==
    \/ AskRequest \/ AskEmbedFulfil \/ AskEmbedReject
    \/ AskSearchOrgReturn \/ AskSearchDomainReturn \/ AskSearchTimeout
    \/ AskGenerateFulfil \/ AskGenerateReject
    \/ GenerateLLMCall \/ GenerateLLMReturn

SpecAsk == InitAsk /\ [][NextAsk]_vars

----------------------------------------------------------------------------
(* index.js: the merge of /ask applied to search results of every shape *)

MaxSnips == 2      \* rows one tier search returns

\* a row of a search result: with its distance, or without one
Snippet(id, d) ==
    IF d = Undefined THEN [id |-> id, text |-> "t", metadata |-> [source |-> Str("a.pdf")]]
    ELSE [id |-> id, text |-> "t", metadata |-> [source |-> Str("a.pdf")], distance |-> d.n]
SnippetDistances == {Undefined} \cup {Num(d - 1) : d \in 0..2}

\* the results of a tier search: rows of ids first + 1, first + 2, ...
RECURSIVE SnippetLists(_, _)
SnippetLists(first, n) ==
    IF n = 0 THEN {<<>>}
    ELSE SnippetLists(first, n - 1) \cup
         {Append(l, Snippet(first + n, d)) :
            l \in {m \in SnippetLists(first, n - 1) : Len(m) = n - 1}, d \in SnippetDistances}

MaxCtxArgs == {Undefined, Num(0), Num(1), Num(MaxSnips + 1)}

InitMerge ==
    /\ kb_domain = {}
    /\ kb_org = {}
    /\ op = NoOp
    /\ lastWrite = [t \in Tables |-> [id \in Ids |-> NoWrite]]
    /\ ml = IdleRun
    /\ mq = <<>>
    /\ hist = NoHistory
    /\ \E orgSnips \in SnippetLists(0, MaxSnips), domainSnips \in SnippetLists(MaxSnips, MaxSnips),
          max_ctx \in MaxCtxArgs :
           req = [state |-> "merge", orgSnips |-> orgSnips, domainSnips |-> domainSnips,
                  max_ctx |-> max_ctx]

\* const contextSnippets = [...orgSnips, ...domainSnips].sort(...).slice(0, max_ctx)
MergeCall ==
    /\ req.state = "merge"
    /\ req' = [state |-> "merged",
               contextSnippets |->
                   ContextSnippets(req.orgSnips, req.domainSnips,
                                   OrDefault(req.max_ctx, Num(DefaultMaxCtx)).n)] @@ req
    /\ UNCHANGED <<kb_domain, kb_org, op, lastWrite, ml, mq, hist>>

NextMerge == MergeCall

SpecMerge == InitMerge /\ [][NextMerge]_vars

----------------------------------------------------------------------------
(* index.js, auth.js: POST /auth/bootstrap-admin, several requests at a    *)
(* time; each await of the handler is a point where another request runs   *)

MaxBootstraps == 2      \* bootstrap requests

ORGANIZATIONS == {"MMM", "RZH"}

BootstrapBody(email, org_key) ==
    [email |-> email, password |-> Str("pw"), org_key |-> org_key, provider |-> Undefined]
BootstrapBodies ==
    { BootstrapBody(Str("a@x"), Undefined), BootstrapBody(Str("b@x"), Str("RZH")),
      BootstrapBody(Undefined, Undefined), BootstrapBody(Str("b@x"), Str("XXX")) }

InitBootstrap ==
    /\ kb_domain = {}
    /\ kb_org = {}
    /\ op = NoOp
    /\ lastWrite = [t \in Tables |-> [id \in Ids |-> NoWrite]]
    /\ ml = IdleRun
    /\ mq = <<>>
    /\ hist = NoHistory
    /\ req = [state |-> "auth", users |-> <<>>,
              calls |-> [i \in 1..MaxBootstraps |-> [pc |-> "none"]]]

\* SELECT 1 FROM users WHERE role='admin' LIMIT 1
AdminRows(users) == {k \in 1..Len(users) : users[k].role = "admin"}

\* SELECT * FROM users WHERE email=$1
getUserByEmail(users, email) == {k \in 1..Len(users) : users[k].email = email}

\* res.json(...) or res.status(...).json(...) of request i
BootstrapRespond(r, i, response) ==
    [r EXCEPT !.calls[i] = [pc |-> "responded", response |-> response] @@ @]

\* the handler up to its first await: the body is checked, the admin query sent
BootstrapRequest ==
    \E i \in 1..MaxBootstraps, body \in BootstrapBodies :
        /\ req.calls[i].pc = "none"
        /\ LET org_key == OrDefault(body.org_key, Str("MMM"))
               provider == OrDefault(body.provider, Str("OLLAMA"))
           IN  req' =
                 IF ~Truthy(body.email) \/ ~Truthy(body.password) \/ ~Truthy(org_key)
                        \/ ~Truthy(provider)
                 THEN BootstrapRespond(req, i, Response(400, [error |-> "required"]))
                 ELSE [req EXCEPT !.calls[i] =
                          [pc |-> "selectAdmin", email |-> body.email.s, org_key |-> org_key.s,
                           provider |-> provider.s]]
        /\ UNCHANGED <<kb_domain, kb_org, op, lastWrite, ml, mq, hist>>

\* the admin query returns: const role = rows.length ? 'user' : 'admin';
\* getUserByEmail is called
AdminQueryReturns ==
    \E i \in 1..MaxBootstraps :
        /\ req.calls[i].pc = "selectAdmin"
        /\ req' = [req EXCEPT !.calls[i] =
                      [pc |-> "selectEmail",
                       role |-> IF AdminRows(req.users) # {} THEN "user" ELSE "admin"] @@ @]
        /\ UNCHANGED <<kb_domain, kb_org, op, lastWrite, ml, mq, hist>>

\* getUserByEmail returns: 409, or createUser up to its await of bcrypt.hash
EmailQueryReturns ==
    \E i \in 1..MaxBootstraps :
        /\ req.calls[i].pc = "selectEmail"
        /\ LET c == req.calls[i]
           IN  req' =
                 IF getUserByEmail(req.users, c.email) # {}
                 THEN BootstrapRespond(req, i, Response(409, [error |-> "email already exists"]))
                 ELSE IF c.org_key \notin ORGANIZATIONS
                 THEN BootstrapRespond(req, i, Response(500, [error |-> "Invalid org_key"]))
                 ELSE IF c.provider \notin PROVIDERS
                 THEN BootstrapRespond(req, i, Response(500, [error |-> "Invalid provider"]))
                 ELSE [req EXCEPT !.calls[i].pc = "hash"]
        /\ UNCHANGED <<kb_domain, kb_org, op, lastWrite, ml, mq, hist>>

\* bcrypt.hash returns: the INSERT is sent
HashReturns ==
    \E i \in 1..MaxBootstraps :
        /\ req.calls[i].pc = "hash"
        /\ req' = [req EXCEPT !.calls[i].pc = "insert"]
        /\ UNCHANGED <<kb_domain, kb_org, op, lastWrite, ml, mq, hist>>

\* INSERT INTO users ... RETURNING: the row with the role the handler chose,
\* or the error of UNIQUE (email); then the response
UserInsertReturns ==
    \E i \in 1..MaxBootstraps :
        /\ req.calls[i].pc = "insert"
        /\ LET c == req.calls[i]
               user == [email |-> c.email, role |-> c.role, org_key |-> c.org_key,
                        provider |-> c.provider]
           IN  req' =
                 IF getUserByEmail(req.users, c.email) # {}
                 THEN BootstrapRespond(req, i, Response(500, [error |-> "duplicate key"]))
                 ELSE BootstrapRespond([req EXCEPT !.users = Append(@, user)], i,
                                       Response(200, [ok |-> TRUE, user |-> user,
                                                      roleAssigned |-> c.role]))
        /\ UNCHANGED <<kb_domain, kb_org, op, lastWrite, ml, mq, hist>>

NextBootstrap ==
    \/ BootstrapRequest \/ AdminQueryReturns \/ EmailQueryReturns
    \/ HashReturns \/ UserInsertReturns

SpecBootstrap == InitBootstrap /\ [][NextBootstrap]_vars

----------------------------------------------------------------------------
(* index.js: withStep, and POST /ask with its timers and its clock.        *)
(* Time is in milliseconds; a timer fires when it is due, before the clock *)
(* moves on, and the promise reactions of an event run before the next one *)

\* TIMEOUTS, as process.env.TIMEOUT_* configures them (15000, 15000, 2000
\* and 540000 when unset)
TimeoutEmbed == 2000
TimeoutSearch == 2000
TimeoutBuildPrompt == 1000
TimeoutGenerate == 3000
TIMEOUTS ==
    [EMBED |-> TimeoutEmbed, SEARCH |-> TimeoutSearch,
     BUILD_PROMPT |-> TimeoutBuildPrompt, GENERATE |-> TimeoutGenerate]

\* genTimeoutMs of a request body that gives one
BodyGenTimeout == 2000

\* the resolution of the clock
TickMs == 1000

STEP_MARGIN == 5000
stepTimeout(ms) == ms + STEP_MARGIN

\* the latest instant a timer of one request can be due at
MaxTime ==
    TimeoutEmbed + TimeoutSearch + 2 * TimeoutBuildPrompt + TickMs
        + stepTimeout(Max(TimeoutGenerate, BodyGenTimeout))

StepLabels == {"embed", "searchOrg", "searchDomain", "buildPrompt", "generate"}

\* new Error(`Step "${label}" timed out after ${timeoutMs}ms`)
TimeoutError(label, timeoutMs) ==
    [name |-> "Error",
     message |-> [text |-> "Step timed out", label |-> label, timeoutMs |-> timeoutMs]]

\* what axios rejects with: a request cancelled through its signal, a reply
\* with an error status, no reply at all
AbortMessages == {"canceled", "timeout"}
ErrCanceled(text) == [name |-> "CanceledError", code |-> "ERR_CANCELED", message |-> [text |-> text]]
ErrBackend ==
    [name |-> "AxiosError", code |-> "ERR_BAD_RESPONSE", status |-> 500,
     message |-> [text |-> "Request failed with status code 500"]]
ErrNetwork ==
    [name |-> "AxiosError", code |-> "ECONNREFUSED", message |-> [text |-> "connect ECONNREFUSED"]]
ErrStore == [name |-> "Error", message |-> [text |-> "store failed"]]
ErrProviderType == [name |-> "TypeError", message |-> [text |-> "toUpperCase is not a function"]]

Fulfilled(v) == [state |-> "fulfilled", value |-> v]
Rejected(e) == [state |-> "rejected", value |-> e]

\* a withStep call that has not been made
NotStarted == [fn |-> "notStarted", timer |-> "none", outcome |-> Pending, settled |-> 0,
               delivered |-> <<>>, timedOut |-> FALSE]

\* Promise.race([Promise.resolve().then(fn), timeout]): the first to settle
\* decides, what settles later changes nothing
RaceSettleLast(step, outcome) == [step EXCEPT !.outcome = outcome, !.settled = @ + 1]
RaceSettle(step, outcome) ==
    IF step.outcome = Pending THEN [step EXCEPT !.outcome = outcome, !.settled = @ + 1]
    ELSE step

\* console.log(`[STEP][${id}] ${label} start`), ... ok, console.error(... FAIL, e)
StartEvent(label) == [label |-> label, kind |-> "start"]
CompletionEventAlwaysOk(label, outcome) == [label |-> label, kind |-> "ok"]
CompletionEvent(label, outcome) ==
    IF outcome.state = "fulfilled" THEN [label |-> label, kind |-> "ok"]
    ELSE [label |-> label, kind |-> "FAIL", error |-> outcome.value]

\* setTimeout(callback, ms): a delay below 1 or above 2^31 - 1 is set to 1
TIMEOUT_MAX == 2147483647
TimerDelay(ms) == IF ms >= 1 /\ ms <= TIMEOUT_MAX THEN ms ELSE 1

\* withStep up to its await: the start event, the timer, fn queued
StartStep(r, label, timeoutMs) ==
    [steps |-> [r.steps EXCEPT ![label] =
                   [fn |-> "running", timer |-> "armed", t0 |-> r.now, timeoutMs |-> timeoutMs,
                    due |-> r.now + TimerDelay(timeoutMs),
                    outcome |-> Pending, settled |-> 0, delivered |-> <<>>,
                    timedOut |-> FALSE]],
     events |-> Append(r.events, StartEvent(label))] @@ r

\* res.json(...) or res.status(...).json(...)
Respond(r, response) ==
    [state |-> "responded", responses |-> Append(r.responses, response),
     respondedAt |-> r.now] @@ r

\* what the catch of withStep rethrows
Rethrow(label, e) == e

\* the catch block of /ask: res.status(500).json({ error: String(e?.message || e) })
AskCatch(r, e) == Respond([caught |-> e] @@ r, Response(500, [error |-> e.message]))

\* genTimeoutMs || TIMEOUTS.GENERATE
GenTimeout(body) == IF Truthy(body.genTimeoutMs) THEN body.genTimeoutMs.n ELSE TIMEOUTS.GENERATE

\* generateLLM up to its await: the AbortController, its timer, the request
GenerateCallNoTimer(provider, now, timeoutMs) ==
    [http |-> "inflight", timer |-> "none", due |-> now + TimerDelay(timeoutMs),
     timeoutMs |-> timeoutMs,
     call |-> HttpPost(EndpointOf(provider), provider)]
GenerateCall(provider, now, timeoutMs) ==
    [http |-> "inflight", timer |-> "armed", due |-> now + TimerDelay(timeoutMs),
     timeoutMs |-> timeoutMs,
     call |-> HttpPost(EndpointOf(provider), provider)]

\* the handler past await withStep(id, 'embed', ...): both searches are started
StartSearches(r, qvec) ==
    LET org == Truthy(r.body.org_id)
        s1 == IF org THEN StartStep(r, "searchOrg", TIMEOUTS.SEARCH) ELSE r
        s2 == StartStep(s1, "searchDomain", TIMEOUTS.SEARCH)
    IN  [state |-> "search", qvec |-> qvec,
         all |-> IF org THEN PromiseAll ELSE ResolveElement(PromiseAll, 1, <<>>)] @@ s2

\* a search step returns: Promise.all keeps the rows; with both there, the
\* merge, and withStep(id, 'buildPrompt', ...) is called
SearchDoneFirst(r, label, rows) ==
    LET all == ResolveElement(r.all, IF label = "searchOrg" THEN 1 ELSE 2, rows)
    IN  StartStep([state |-> "buildPrompt", all |-> all,
                   contextSnippets |-> ContextSnippets(rows, <<>>, DefaultMaxCtx)] @@ r,
                  "buildPrompt", TIMEOUTS.BUILD_PROMPT)
SearchDone(r, label, rows) ==
    LET all == ResolveElement(r.all, IF label = "searchOrg" THEN 1 ELSE 2, rows)
    IN  IF all.promise = Pending THEN [all |-> all] @@ r
        ELSE StartStep([state |-> "buildPrompt", all |-> all,
                        contextSnippets |->
                            ContextSnippets(all.promise.value[1], all.promise.value[2],
                                            DefaultMaxCtx)] @@ r,
                       "buildPrompt", TIMEOUTS.BUILD_PROMPT)

\* the handler past await withStep(id, 'buildPrompt', ...): generateLLM is
\* called under withStep with the watchdog of stepTimeout
StartGenerate(r, prompt) ==
    StartStep([state |-> "generate", prompt |-> prompt,
               gen |-> GenerateCall(r.provider, r.now, GenTimeout(r.body))] @@ r,
              "generate", stepTimeout(GenTimeout(r.body)))

\* the step the handler is waiting for
Awaits(state, label) ==
    \/ state = "embed" /\ label = "embed"
    \/ state = "search" /\ label \in {"searchOrg", "searchDomain"}
    \/ state = "buildPrompt" /\ label = "buildPrompt"
    \/ state = "generate" /\ label = "generate"

\* withStep past its await: the completion event, then the result is returned
\* or the error rethrown to the handler, which goes on or answers
Resume(r, label, outcome) ==
    LET given == IF outcome.state = "rejected"
                 THEN Rejected(Rethrow(label, outcome.value)) ELSE outcome
        logged == [events |-> Append(r.events, CompletionEvent(label, outcome)),
                   steps |-> [r.steps EXCEPT ![label].delivered = Append(@, given)]] @@ r
    IN  IF ~Awaits(r.state, label) THEN logged
        ELSE IF given.state = "rejected" THEN AskCatch(logged, given.value)
        ELSE CASE label = "embed" -> StartSearches(logged, given.value)
               [] label \in {"searchOrg", "searchDomain"} -> SearchDone(logged, label, given.value)
               [] label = "buildPrompt" -> StartGenerate(logged, given.value)
               [] OTHER -> Respond(logged, Response(200, [answer |-> given.value,
                                                          used |-> [provider |-> r.provider]]))

\* fn has settled at the instant now
FnDoneClearsTimer(step, outcome, now) ==
    [fnAt |-> now] @@ [step EXCEPT !.fn = outcome.state, !.timer = "cleared"]
FnDone(step, outcome, now) == [fnAt |-> now] @@ [step EXCEPT !.fn = outcome.state]

\* fn or the timer settles: the race takes it or ignores it
Settle(r, label, step, outcome) ==
    LET raced == RaceSettle(step, outcome)
        r1 == [steps |-> [r.steps EXCEPT ![label] = raced]] @@ r
    IN  IF raced.settled = step.settled THEN r1 ELSE Resume(r1, label, raced.outcome)

\* a genTimeoutMs below zero by more than the margin: the body is not validated
NegativeGenTimeout == 0 - stepTimeout(TickMs)

\* req.body of a /ask request with its generation timeout
TimedBody(provider, question, org_id, genTimeoutMs) ==
    [provider |-> provider, question |-> question, org_id |-> org_id,
     genTimeoutMs |-> genTimeoutMs]
TimedBodies ==
    { TimedBody(Undefined, Str("q"), Str("orgA"), Undefined),
      TimedBody(Str("groq"), Str("q"), Undefined, Num(BodyGenTimeout)),
      TimedBody(Str("groq"), Str("q"), Undefined, Num(NegativeGenTimeout)),
      TimedBody(Str("foo"), Str("q"), Undefined, Undefined),
      TimedBody(Undefined, Undefined, Undefined, Undefined),
      TimedBody(Num(5), Str("q"), Undefined, Undefined) }

InitAskTimed ==
    /\ kb_org = {}
    /\ kb_domain = {}
    /\ op = NoOp
    /\ lastWrite = [t \in Tables |-> [id \in Ids |-> NoWrite]]
    /\ ml = IdleRun
    /\ mq = <<>>
    /\ hist = NoHistory
    /\ req = [state |-> "none", now |-> 0, events |-> <<>>, responses |-> <<>>,
              steps |-> [l \in StepLabels |-> NotStarted]]

\* app.post('/ask') up to its first await.  The provider is upper-cased
\* outside the try block: with a provider that is no string the handler's
\* promise rejects, and the framework answers or does not
TimedAskRequest ==
    \E body \in TimedBodies, handled \in BOOLEAN :
        /\ req.state = "none"
        /\ LET reqProvider == IF Truthy(body.provider) THEN body.provider ELSE Str("OLLAMA")
               provider == IF reqProvider.type = "string" THEN ToUpperCase(reqProvider.s)
                           ELSE "none"
               r == [body |-> body, provider |-> provider] @@ req
           IN  req' =
                 IF reqProvider.type # "string"
                 THEN IF handled
                      THEN Respond([thrown |-> ErrProviderType] @@ r,
                                   Response(500, [error |-> [text |-> "Internal Server Error"]]))
                      ELSE [state |-> "unanswered", thrown |-> ErrProviderType] @@ r
                 ELSE IF provider \notin PROVIDERS
                 THEN Respond(r, Response(400, [error |-> ErrUnsupported(provider)]))
                 ELSE IF ~Truthy(body.question)
                 THEN Respond(r, Response(400, [error |-> ErrQuestion]))
                 ELSE StartStep([state |-> "embed"] @@ r, "embed", TIMEOUTS.EMBED)
        /\ UNCHANGED <<kb_domain, kb_org, op, lastWrite, ml, mq, hist>>

\* renderPrompt is waiting to run as a reaction: nothing else runs before it
ReactionPending == req.steps["buildPrompt"].fn = "running"

\* the embedding service or the store replies to the call fn made, or fails
StepFnSettles ==
    \E label \in {"embed", "searchOrg", "searchDomain"}, ok \in BOOLEAN :
        /\ req.steps[label].fn = "running"
        /\ ~ReactionPending
        /\ LET outcome == IF ~ok THEN Rejected(ErrStore)
                          ELSE IF label = "embed" THEN Fulfilled(EmbeddingA)
                          ELSE Fulfilled(<<>>)
           IN  req' = Settle(req, label, FnDone(req.steps[label], outcome, req.now), outcome)
        /\ UNCHANGED <<kb_domain, kb_org, op, lastWrite, ml, mq, hist>>

\* renderPrompt runs to its end, however long it takes: no timer fires meanwhile
BuildPromptRuns ==
    \E took \in {0, TimeoutBuildPrompt + TickMs} :
        /\ ReactionPending
        /\ LET r == [now |-> req.now + took] @@ req
               outcome == Fulfilled(renderPrompt(req.contextSnippets, req.body.question))
           IN  req' = Settle(r, "buildPrompt", FnDone(r.steps["buildPrompt"], outcome, r.now),
                             outcome)
        /\ UNCHANGED <<kb_domain, kb_org, op, lastWrite, ml, mq, hist>>

\* the provider replies, or the request fails: generateLLM returns or throws,
\* its finally clears the timer
GenerateReply ==
    \E outcome \in {Fulfilled("answer"), Rejected(ErrBackend), Rejected(ErrNetwork)} :
        /\ req.steps["generate"].fn = "running"
        /\ req.gen.http = "inflight"
        /\ LET r == [gen |-> [outcome |-> outcome]
                                @@ [req.gen EXCEPT !.http = "replied",
                                                   !.timer = IF @ = "armed" THEN "cleared" ELSE @]]
                    @@ req
           IN  req' = Settle(r, "generate", FnDone(r.steps["generate"], outcome, r.now), outcome)
        /\ UNCHANGED <<kb_domain, kb_org, op, lastWrite, ml, mq, hist>>

\* the timer of generateLLM: controller.abort('timeout'), axios rejects
GenerateAbort ==
    \E text \in AbortMessages :
        /\ req.steps["generate"].fn = "running"
        /\ req.gen.timer = "armed" /\ req.now >= req.gen.due
        /\ LET outcome == Rejected(ErrCanceled(text))
               r == [gen |-> [abortedAt |-> req.now, outcome |-> outcome]
                                @@ [req.gen EXCEPT !.http = "aborted", !.timer = "fired"]] @@ req
           IN  req' = Settle(r, "generate", FnDone(r.steps["generate"], outcome, r.now), outcome)
        /\ UNCHANGED <<kb_domain, kb_org, op, lastWrite, ml, mq, hist>>

\* the timer of a withStep call; no one clears it
StepTimerFires ==
    \E label \in StepLabels :
        /\ req.steps[label].timer = "armed"
        /\ req.now >= req.steps[label].due
        /\ ~ReactionPending
        /\ req' = Settle(req, label,
                         [req.steps[label] EXCEPT !.timer = "fired",
                                                  !.timedOut = (req.steps[label].fn = "running")],
                         Rejected(TimeoutError(label, req.steps[label].timeoutMs)))
        /\ UNCHANGED <<kb_domain, kb_org, op, lastWrite, ml, mq, hist>>

\* the instants the armed timers are due at
DueTimes(r) ==
    {r.steps[l].due : l \in {k \in StepLabels : r.steps[k].timer = "armed"}}
        \cup (IF "gen" \in DOMAIN r /\ r.gen.timer = "armed" THEN {r.gen.due} ELSE {})

\* time passes, up to the next timer
Tick ==
    /\ "steps" \in DOMAIN req
    /\ ~ReactionPending
    /\ DueTimes(req) # {}
    /\ \A t \in DueTimes(req) : req.now < t
    /\ req.now < MaxTime
    /\ req' = [now |-> CHOOSE t \in DueTimes(req) \cup {req.now + TickMs} :
                          \A u \in DueTimes(req) \cup {req.now + TickMs} : t <= u] @@ req
    /\ UNCHANGED <<kb_domain, kb_org, op, lastWrite, ml, mq, hist>>

NextAskTimed ==
    \/ TimedAskRequest \/ StepFnSettles \/ BuildPromptRuns
    \/ GenerateReply \/ GenerateAbort \/ StepTimerFires \/ Tick

SpecAskTimed == InitAskTimed /\ [][NextAskTimed]_vars

\* timers fire and reactions run: the event loop leaves none of them waiting
SpecAskTimedFair ==
    /\ SpecAskTimed
    /\ WF_vars(Tick) /\ WF_vars(StepTimerFires) /\ WF_vars(GenerateAbort)
    /\ WF_vars(BuildPromptRuns)

----------------------------------------------------------------------------
(* chunk.js: chunkText over the characters of a text *)

Space == " "
IsSpace(c) == c = Space

\* the index of the first character at or after k that is no whitespace
RECURSIVE SkipSpaces(_, _)
SkipSpaces(text, k) ==
    IF k <= Len(text) /\ IsSpace(text[k]) THEN SkipSpaces(text, k + 1) ELSE k

\* text.split(/\s+/) from character k on, cur being the word begun: a text
\* that starts or ends with whitespace yields an empty first or last word
RECURSIVE SplitFrom(_, _, _)
SplitFrom(text, k, cur) ==
    IF k > Len(text) THEN <<cur>>
    ELSE IF IsSpace(text[k]) THEN <<cur>> \o SplitFrom(text, SkipSpaces(text, k), <<>>)
    ELSE SplitFrom(text, k + 1, Append(cur, text[k]))

Split(text) == SplitFrom(text, 1, <<>>)

\* words.slice(start, end): a negative start or end counts from the end
WordsSlice(words, start, end) ==
    SubSeq(words,
           (IF start < 0 THEN Max(Len(words) + start, 0) ELSE Min(start, Len(words))) + 1,
           IF end < 0 THEN Max(Len(words) + end, 0) ELSE Min(end, Len(words)))

\* words.join(' ')
RECURSIVE Join(_)
Join(words) ==
    IF words = <<>> THEN <<>>
    ELSE IF Len(words) = 1 THEN words[1]
    ELSE words[1] \o <<Space>> \o Join(Tail(words))

\* s.trim()
Trim(s) ==
    IF \A k \in 1..Len(s) : IsSpace(s[k]) THEN <<>>
    ELSE LET first == CHOOSE k \in 1..Len(s) : ~IsSpace(s[k]) /\ \A j \in 1..(k - 1) : IsSpace(s[j])
             last == CHOOSE k \in 1..Len(s) : ~IsSpace(s[k]) /\ \A j \in (k + 1)..Len(s) : IsSpace(s[j])
         IN  SubSeq(s, first, last)

\* i += Math.max(1, maxTokens - overlapTokens)
AdvanceFrozen(i, maxTokens, overlapTokens) == i + (maxTokens - overlapTokens)
AdvanceNoOverlap(i, maxTokens, overlapTokens) == i + Max(1, maxTokens)
Advance(i, maxTokens, overlapTokens) == i + Max(1, maxTokens - overlapTokens)

\* chunks.push(slice) when slice.trim() is not empty
PushAlways(chunks, slice) == Append(chunks, slice)
Push(chunks, slice) == IF Trim(slice) # <<>> THEN Append(chunks, slice) ELSE chunks

MaxWords == 4      \* words of a text
MaxUnits == 3      \* largest maxTokens and overlapTokens tried

\* the texts: up to MaxWords one-character words, all different, separated by
\* one or two spaces, with or without whitespace before and after
RECURSIVE TextOf(_, _, _)
TextOf(k, n, sep) ==
    IF k > n THEN <<>>
    ELSE <<ToString(k)>> \o (IF k < n THEN sep ELSE <<>>) \o TextOf(k + 1, n, sep)
Texts ==
    { lead \o TextOf(1, n, sep) \o trail :
        lead \in {<<>>, <<Space>>}, trail \in {<<>>, <<Space>>},
        n \in 0..MaxWords, sep \in {<<Space>>, <<Space, Space>>} }

\* the options chunkText is called with; none gives maxTokens = 700, overlapTokens = 120
ChunkOptions ==
    {[maxTokens |-> MaxTokens, overlapTokens |-> OverlapTokens]}
    \cup {[maxTokens |-> m, overlapTokens |-> o] : m \in 0..MaxUnits, o \in 0..MaxUnits}

InitChunk ==
    /\ kb_domain = {}
    /\ kb_org = {}
    /\ \E text \in Texts, options \in ChunkOptions :
         op = [name |-> "chunkText", pc |-> "call", text |-> text,
               maxTokens |-> options.maxTokens, overlapTokens |-> options.overlapTokens]
    /\ lastWrite = [t \in Tables |-> [id \in Ids |-> NoWrite]]
    /\ ml = IdleRun
    /\ mq = <<>>
    /\ hist = NoHistory
    /\ req = [state |-> "none"]

\* const words = (text || '').split(/\s+/); const chunks = []; let i = 0
ChunkTextEnter ==
    /\ op.name = "chunkText" /\ op.pc = "call"
    /\ op' = [pc |-> "while", words |-> Split(op.text), chunks |-> <<>>, i |-> 0] @@ op
    /\ UNCHANGED <<kb_domain, kb_org, lastWrite, ml, mq, hist, req>>

\* one pass of the while loop
ChunkTextIterate ==
    /\ op.name = "chunkText" /\ op.pc = "while"
    /\ op.i < Len(op.words)
    /\ LET slice == Join(WordsSlice(op.words, op.i, op.i + op.maxTokens))
       IN  op' = [op EXCEPT !.chunks = Push(op.chunks, slice),
                            !.i = Advance(op.i, op.maxTokens, op.overlapTokens)]
    /\ UNCHANGED <<kb_domain, kb_org, lastWrite, ml, mq, hist, req>>

\* the loop condition fails: return chunks
ChunkTextReturn ==
    /\ op.name = "chunkText" /\ op.pc = "while"
    /\ ~(op.i < Len(op.words))
    /\ op' = [op EXCEPT !.pc = "done"]
    /\ UNCHANGED <<kb_domain, kb_org, lastWrite, ml, mq, hist, req>>

NextChunk == ChunkTextEnter \/ ChunkTextIterate \/ ChunkTextReturn

SpecChunk == InitChunk /\ [][NextChunk]_vars

\* a call that has started runs on: nothing else is scheduled within chunkText
SpecChunkFair == SpecChunk /\ WF_vars(NextChunk)

----------------------------------------------------------------------------
(* db.js: toVectorLiteral called on its own *)

Bool(b) == [type |-> "boolean", b |-> b]

\* a call of toVectorLiteral: the error it throws, or the elements of the
\* literal '[n1,n2,...]' it returns
toVectorLiteralCall(vec) ==
    IF ~IsArray(vec) THEN [outcome |-> ErrNotArray]
    ELSE [outcome |-> "ok", literal |-> toVectorLiteral(vec)]

MaxVecLen == 2     \* length of an array given to toVectorLiteral

Elements ==
    { Num(2), Num(-1), Str("1"), Str("2"), Str("bad"), Str("1abc"), Str(""),
      NaN, Infinity, Null, Undefined, Bool(TRUE), Arr(<<Num(1)>>) }
VectorArgs ==
    { Arr(elems) : elems \in UNION {[1..n -> Elements] : n \in 0..MaxVecLen} }
    \cup {Undefined, Null, Str("[1,0]"), Num(1), [type |-> "object", length |-> Num(0)]}

InitEncode ==
    /\ kb_domain = {}
    /\ kb_org = {}
    /\ \E vec \in VectorArgs : op = [name |-> "toVectorLiteral", pc |-> "call", vec |-> vec]
    /\ lastWrite = [t \in Tables |-> [id \in Ids |-> NoWrite]]
    /\ ml = IdleRun
    /\ mq = <<>>
    /\ hist = NoHistory
    /\ req = [state |-> "none"]

ToVectorLiteral ==
    /\ op.name = "toVectorLiteral" /\ op.pc = "call"
    /\ op' = [pc |-> "done"] @@ toVectorLiteralCall(op.vec) @@ op
    /\ UNCHANGED <<kb_domain, kb_org, lastWrite, ml, mq, hist, req>>

NextEncode == ToVectorLiteral

SpecEncode == InitEncode /\ [][NextEncode]_vars

----------------------------------------------------------------------------
(* Properties of mapLimit *)

Called == ml.state = "called"
AllIndices == DOMAIN ml.items

\* C1: for limit >= 1, the number of worker invocations started and not yet
\* settled never exceeds limit.
C1_AtMostLimitActive ==
    (Called /\ ml.limit >= 1) => Cardinality(Running(ml)) <= ml.limit

\* limit invocations are active while further items wait to be started
C1_Witness ==
    /\ Called /\ ml.limit >= 2
    /\ Cardinality(Running(ml)) = ml.limit
    /\ ml.i < Length(ml.items)

\* C2: for limit >= 1, once the promise is fulfilled its array has the length
\* of items and holds at every index k the result of the worker on items[k];
\* and when every invocation has succeeded and nothing is left to run, the
\* promise is fulfilled - in whatever order the invocations completed.
C2_ResultsInInputOrder ==
    /\ (Called /\ ml.promise.state = "fulfilled") =>
          /\ ml.promise.value = OutRef
          /\ DOMAIN ml.out = DOMAIN ml.items
          /\ \A k \in AllIndices : ml.out[k] = WorkerResult(ml.items[k], k)
    /\ (Quiescent /\ ml.limit >= 1 /\ hist.failed = <<>>) => ml.promise.state = "fulfilled"

\* the run is fulfilled although a later item completed before an earlier one
C2_Witness ==
    /\ Called /\ ml.promise.state = "fulfilled"
    /\ Length(ml.items) >= 3
    /\ \E j, k \in 1..Len(hist.order) : j < k /\ hist.order[j] > hist.order[k]

\* C3: once a worker invocation has failed the promise is never fulfilled; it
\* is rejected with the error of the first invocation that failed, at the
\* latest when nothing is left to run, and stays so whatever the other
\* invocations do.
C3_FirstFailureRejects ==
    /\ [](Called =>
            /\ hist.failed # <<>> => ml.promise.state # "fulfilled"
            /\ ml.promise.state = "rejected" =>
                 /\ hist.failed # <<>>
                 /\ ml.promise.value = WorkerError(Head(hist.failed))
            /\ (Quiescent /\ hist.failed # <<>>) => ml.promise.state = "rejected")
    /\ [][(Called /\ ml.promise.state = "rejected") => ml'.promise = ml.promise]_vars

\* the run is over, rejected by the first of two failures, while other
\* invocations succeeded after that failure
C3_Witness ==
    /\ Quiescent /\ ml.promise.state = "rejected"
    /\ Len(hist.failed) >= 2
    /\ ml.promise.value = WorkerError(hist.failed[1])
    /\ \E j \in 1..Len(hist.order) :
         /\ hist.order[j] = hist.failed[1]
         /\ \E k \in (j + 1)..Len(hist.order) : ml.worker[hist.order[k]] = "fulfilled"

\* C4 (as claimed): with a limit below 1 the returned promise rejects - so
\* when nothing is left to run it has been rejected.
C4_LimitBelowOneRejects ==
    (Quiescent /\ ml.limit < 1) => ml.promise.state = "rejected"

\* C36: with limit >= 1, when every worker invocation settles successfully
\* the promise of mapLimit is eventually fulfilled, and it is fulfilled only
\* after every item has been invoked and every invocation has settled; for an
\* empty list it is fulfilled with an empty array and no invocation.
C36_ResolvesAfterAllSettled ==
    /\ []((Called /\ ml.promise.state = "fulfilled") =>
            /\ ml.i = Length(ml.items) /\ ml.inFlight = 0
            /\ Len(ml.started) = Length(ml.items)
            /\ \A k \in AllIndices : ml.worker[k] = "fulfilled"
            /\ Length(ml.items) = 0 => Length(ml.out) = 0 /\ hist.order = <<>>)
    /\ (ml.limit >= 1) => <>(Called /\ (hist.failed # <<>> \/ ml.promise.state = "fulfilled"))

\* a run over more items than the limit is fulfilled, all of them fulfilled
C36_Witness ==
    /\ Called /\ ml.promise.state = "fulfilled"
    /\ ml.limit = 2 /\ Length(ml.items) = MaxItems
    /\ \A k \in AllIndices : ml.worker[k] = "fulfilled"

\* the invocations whose finally handler has not run yet
Unfinished ==
    Running(ml) \cup {mq[k].idx : k \in 1..Len(mq)}

----------------------------------------------------------------------------
(* Properties of the store *)

IsInsert(o) == o.name = "insertChunk"
IsSearch(o) == o.name \in {"searchOrg", "searchDomain"}
WellFormedEmbedding(e) == IsArray(e) /\ Len(e.array) = Dim

\* C5: after any sequence of insertChunk calls, the row under an id holds the
\* text, metadata and embedding (and in kb_org the org_id) of the last
\* insertChunk call that wrote that id, and nothing of an earlier write; an
\* id never written has no row.
C5_LastWriterWins ==
    \A t \in Tables : \A id \in DOMAIN lastWrite[t] :
        LET w == lastWrite[t][id]
        IN  IF ~w.written THEN RowsUnder(t, id) = {}
            ELSE /\ RowsUnder(t, id) # {}
                 /\ \A r \in RowsUnder(t, id) :
                      /\ r.text = w.text
                      /\ r.metadata = Jsonb(w.metadata)
                      /\ r.embedding = toVectorLiteral(w.embedding)
                      /\ t = "kb_org" => r.org_id = PrepareValue(Prop(w.metadata, "org_id"))

\* a kb_org row was overwritten by a call that differs from it in every field
C5_Witness ==
    /\ IsInsert(op) /\ op.outcome = "ok" /\ op.table = "kb_org" /\ op.replaced
    /\ \E b \in op.before :
         /\ b.text # op.text
         /\ b.metadata # Jsonb(op.metadata)
         /\ b.embedding # toVectorLiteral(op.embedding)
         /\ b.org_id # PrepareValue(Prop(op.metadata, "org_id"))
    /\ \E r \in kb_org : r.id = op.id /\ r.text = op.text

\* C6: each table holds at most one row per id, and an upsert of an id the
\* table already holds leaves the table's row count unchanged with exactly
\* one row under that id.
C6_OneRowPerId ==
    /\ [](\A t \in Tables : \A r1, r2 \in Rows(t) : r1.id = r2.id => r1 = r2)
    /\ [][(IsInsert(op') /\ op'.outcome = "ok" /\ op'.replaced) =>
            /\ op'.table = "kb_org" =>
                 /\ Cardinality(kb_org') = Cardinality(kb_org)
                 /\ Cardinality({r \in kb_org' : r.id = op'.id}) = 1
            /\ op'.table = "kb_domain" =>
                 /\ Cardinality(kb_domain') = Cardinality(kb_domain)
                 /\ Cardinality({r \in kb_domain' : r.id = op'.id}) = 1]_vars

\* the same id of kb_domain was upserted again with another text
C6_Witness ==
    /\ IsInsert(op) /\ op.outcome = "ok" /\ op.table = "kb_domain" /\ op.replaced
    /\ \E b \in op.before : b.text # op.text
    /\ Cardinality(RowsUnder("kb_domain", op.id)) = 1

\* C7: an otherwise well-formed upsert into kb_org whose metadata carries no
\* org_id fails with the missing-org_id error (the NOT NULL violation on
\* org_id); and every upsert into kb_org without org_id fails and leaves both
\* tables unchanged.
C7_MissingOrgId ==
    [][(IsInsert(op') /\ op'.table = "kb_org"
          /\ Prop(op'.metadata, "org_id") \in {Undefined, Null}) =>
            /\ op'.outcome # "ok"
            /\ WellFormedEmbedding(op'.embedding) => op'.outcome = ErrOrgIdNull
            /\ kb_org' = kb_org
            /\ kb_domain' = kb_domain]_vars

\* a well-formed chunk without org_id was refused by a kb_org that holds rows
C7_Witness ==
    /\ IsInsert(op) /\ op.table = "kb_org"
    /\ Prop(op.metadata, "org_id") = Undefined
    /\ WellFormedEmbedding(op.embedding)
    /\ op.outcome = ErrOrgIdNull
    /\ kb_org # {}
    /\ RowsUnder("kb_org", op.id) = op.before

\* C9: searchOrg returns only rows whose org_id equals orgId: no row stored
\* under another organization appears in its result.
C9_OrgIsolation ==
    op.name = "searchOrg" =>
        \A k \in 1..Len(op.rows) :
            /\ \E r \in kb_org : r.id = op.rows[k].id
            /\ \A r \in kb_org : r.id = op.rows[k].id => r.org_id = PrepareValue(op.orgId)

\* a search found a row of its organization while another organization has a row too
C9_Witness ==
    /\ op.name = "searchOrg" /\ op.outcome = "ok" /\ Len(op.rows) >= 1
    /\ \E r \in kb_org : r.org_id # PrepareValue(op.orgId)

\* the rows a search of the last call ranges over
Searched(o) ==
    IF o.name = "searchOrg"
    THEN {r \in kb_org : r.org_id = PrepareValue(o.orgId)}
    ELSE kb_domain
EffectiveLimit(o) ==
    IF o.limit # Undefined THEN o.limit.n
    ELSE IF o.name = "searchOrg" THEN DefaultOrgLimit ELSE DefaultDomainLimit

\* C10: for limit >= 1 and a well-formed query embedding, searchDomain and
\* searchOrg return min(limit, number of searched rows) rows; these are the
\* searched rows with the smallest distances to the query, each once, in
\* ascending order of distance.
C10_NearestFirst ==
    (IsSearch(op) /\ EffectiveLimit(op) >= 1 /\ WellFormedEmbedding(op.queryEmbedding)) =>
        LET q == toVectorLiteral(op.queryEmbedding)
            S == Searched(op)
            found == {op.rows[k].id : k \in 1..Len(op.rows)}
        IN  /\ op.outcome = "ok"
            /\ Len(op.rows) = Min(EffectiveLimit(op), Cardinality(S))
            /\ \A j, k \in 1..Len(op.rows) :
                 /\ j < k => op.rows[j].distance <= op.rows[k].distance
                 /\ op.rows[j].id = op.rows[k].id => j = k
            /\ \A k \in 1..Len(op.rows) :
                 \E r \in S : /\ r.id = op.rows[k].id
                              /\ r.text = op.rows[k].text
                              /\ r.metadata = op.rows[k].metadata
                              /\ op.rows[k].distance = Distance(r.embedding, q)
            /\ \A r \in S : r.id \notin found =>
                 \A k \in 1..Len(op.rows) : op.rows[k].distance <= Distance(r.embedding, q)

\* a search with limit 1 over two rows at different distances
C10_Witness ==
    /\ IsSearch(op) /\ op.outcome = "ok" /\ op.limit = Num(1)
    /\ WellFormedEmbedding(op.queryEmbedding)
    /\ Len(op.rows) = 1
    /\ \E r1, r2 \in Searched(op) :
         Distance(r1.embedding, toVectorLiteral(op.queryEmbedding))
           < Distance(r2.embedding, toVectorLiteral(op.queryEmbedding))

\* C11: searchDomain and searchOrg called with a limit <= 0 and a well-formed
\* query embedding do not fail and return the empty sequence.
C11_NonPositiveLimitEmpty ==
    (IsSearch(op) /\ op.limit # Undefined /\ op.limit.n <= 0
       /\ WellFormedEmbedding(op.queryEmbedding)) =>
        /\ op.outcome = "ok"
        /\ op.rows = <<>>

\* C12: a search of a tier with limit >= 1 whose query is the embedding of a
\* row stored in that tier returns a row with that embedding, at distance 0.
C12_RoundTripDistanceZero ==
    (IsSearch(op) /\ EffectiveLimit(op) >= 1 /\ WellFormedEmbedding(op.queryEmbedding)) =>
        LET q == toVectorLiteral(op.queryEmbedding)
        IN  \A r \in Searched(op) : r.embedding = q =>
                \E k \in 1..Len(op.rows) :
                    /\ op.rows[k].distance = 0
                    /\ \E s \in Searched(op) : s.id = op.rows[k].id /\ s.embedding = q

\* C13: every row returned by searchDomain or searchOrg has a distance >= 0.
C13_DistanceNonNegative ==
    IsSearch(op) => \A k \in 1..Len(op.rows) : op.rows[k].distance >= 0

\* the other tier
OtherTable(table) == IF table = "kb_org" THEN "kb_domain" ELSE "kb_org"

\* the rows a table holds under an id after the step
RowsUnderNext(table, id) ==
    {r \in (IF table = "kb_org" THEN kb_org' ELSE kb_domain') : r[PrimaryKey] = id}

\* C35: a chunk's tier never changes: an insertChunk call on one tier leaves
\* every record of the other tier as it was and removes no record of its own
\* tier, and an upsert of an id held only by the other tier creates a
\* separate record beside it.
C35_TierNeverChanges ==
    [][IsInsert(op') =>
          /\ op'.table = "kb_org" => kb_domain' = kb_domain
          /\ op'.table = "kb_domain" => kb_org' = kb_org
          /\ \A r \in kb_org : \E r2 \in kb_org' : r2.id = r.id
          /\ \A r \in kb_domain : \E r2 \in kb_domain' : r2.id = r.id
          /\ (op'.outcome = "ok" /\ ~op'.replaced) =>
                 /\ Cardinality(RowsUnderNext(op'.table, op'.id)) = 1
                 /\ RowsUnderNext(OtherTable(op'.table), op'.id)
                        = RowsUnder(OtherTable(op'.table), op'.id)]_vars

\* an id held by kb_domain only was upserted into kb_org: both tiers now
\* hold a record under it, with different texts
C35_Witness ==
    /\ IsInsert(op) /\ op.outcome = "ok" /\ op.table = "kb_org" /\ ~op.replaced
    /\ \E d \in kb_domain : \E o \in kb_org :
           d.id = op.id /\ o.id = op.id /\ d.text # o.text

\* the statements executed so far that wrote the row of table under id
AppliedTo(table, id) ==
    {k \in 1..Len(req.applied) :
        LET c == req.issued[req.applied[k]]
        IN  c.table = table /\ c.id = id
            /\ InsertOutcome(table, c.metadata, c.embedding) = "ok"}

\* C31: when ingestions upsert the same id into the same tier concurrently,
\* the record is at every moment the complete record (text, metadata,
\* embedding, org_id) of the write applied last, never a mix of two writes.
C31_ConcurrentUpsertWholeRecord ==
    \A table \in Tables : \A id \in Ids :
        IF AppliedTo(table, id) = {} THEN RowsUnder(table, id) = {}
        ELSE LET last == CHOOSE k \in AppliedTo(table, id) : \A j \in AppliedTo(table, id) : j <= k
                 c == req.issued[req.applied[last]]
             IN  RowsUnder(table, id) = {NewRow(table, id, c.text, c.metadata, c.embedding)}

\* two writes of one id of kb_org that differ in every field were in flight
\* together and were applied in the reverse of the order they were made in
C31_Witness ==
    /\ req.state = "ingesting" /\ req.applied = <<2, 1>>
    /\ req.issued[1].table = "kb_org" /\ req.issued[2].table = "kb_org"
    /\ req.issued[1].id = req.issued[2].id
    /\ req.issued[1].text # req.issued[2].text
    /\ req.issued[1].metadata.org_id # req.issued[2].metadata.org_id
    /\ req.issued[1].embedding # req.issued[2].embedding
    /\ \E r \in kb_org : r.id = req.issued[1].id /\ r.text = req.issued[1].text

----------------------------------------------------------------------------
(* Properties of the upload handler *)

\* C8: whatever upload requests have been processed, with whatever layer and
\* org_id query parameters, every row of kb_org carries a non-empty org_id.
C8_OrgRowsCarryOrgId == \A r \in kb_org : r.org_id # SqlNull /\ NonEmptyText(r.org_id)

\* two uploads have filled kb_org under two different org_id values
C8_Witness ==
    /\ req.served = 2
    /\ \E r1, r2 \in kb_org : r1.org_id # r2.org_id /\ r1.metadata.layer = Str("org")

\* C25: during ingestion insertChunk is called for a chunk only after that
\* chunk's own embed call has fulfilled, in every interleaving of the chunk
\* operations, and a chunk whose embed call failed is never stored.
C25_StoreOnlyAfterOwnEmbed ==
    "chunks" \in DOMAIN req =>
        \A idx \in DOMAIN req.chunks :
            /\ req.calls[idx] # Hole => req.embeds[idx] = "fulfilled"
            /\ (\E r \in Rows(req.table) : r.id = Uuid(req.served, idx))
                   => req.embeds[idx] = "fulfilled"
            /\ req.embeds[idx] = "rejected"
                   => req.stored[idx] = Hole /\ ml.worker[idx] = "rejected"

\* the embed call of chunk 0 failed while chunk 1 of the same upload was
\* embedded and stored
C25_Witness ==
    /\ "chunks" \in DOMAIN req /\ Length(req.chunks) = 2
    /\ req.embeds[0] = "rejected" /\ req.embeds[1] = "fulfilled"
    /\ \E r \in Rows(req.table) : r.id = Uuid(req.served, 1)

\* C26: when an upload succeeds, parts is the number of chunks the chunker
\* produced and the returned list holds one (id, part) pair per chunk, in
\* increasing part order with part = chunk index + 1, whatever order the
\* chunk operations completed in.
C26_SuccessReportsEveryChunk ==
    req.state = "responded" /\ req.response.status = 200 =>
        LET body == req.response.body
            n == Length(req.chunks)
        IN  /\ body.parts = n
            /\ Len(body.chunks) = n
            /\ \A k \in 0..(n - 1) :
                   body.chunks[k + 1] = [id |-> req.calls[k].id, part |-> k + 1]

\* an upload of two chunks succeeded after chunk 1 completed before chunk 0
C26_Witness ==
    /\ req.state = "responded" /\ req.response.status = 200
    /\ Length(req.chunks) = 2
    /\ hist.order = <<1, 0>>

\* C29: when an upload fails at some chunk, every chunk of that upload whose
\* store call succeeded is in the store with the content written for it:
\* the failed ingestion rolls back nothing.
C29_FailedUploadKeepsStoredChunks ==
    req.state = "responded" /\ req.response.status = 500 =>
        \A idx \in DOMAIN req.chunks :
            ml.worker[idx] \in {"inserted", "fulfilled"} =>
                LET c == req.calls[idx]
                IN  NewRow(req.table, c.id, c.text, c.metadata, c.embedding)
                        \in Rows(req.table)

\* an upload of two chunks failed at one chunk after the other was stored
C29_Witness ==
    /\ req.state = "responded" /\ req.response.status = 500
    /\ req.okCount = 1
    /\ \E idx \in DOMAIN req.chunks :
           /\ ml.worker[idx] = "fulfilled"
           /\ \E r \in Rows(req.table) : r.id = req.calls[idx].id /\ r.text = req.chunks[idx]

\* C30: when an upload fails after some chunks were stored, the failure
\* response reports how many chunks were embedded and stored.
C30_FailureReportsStoredCount ==
    req.state = "responded" /\ req.response.status = 500 /\ req.okCount >= 1 =>
        /\ "parts" \in DOMAIN req.response.body
        /\ req.response.body.parts = req.okCount

\* C37: a failed worker invocation does not stop the dispatch of mapLimit:
\* when nothing is left to run every item has been started, also after a
\* failure, so an upload that has failed and answered with an error has still
\* called embed for each of its chunks and stored those that went through.
C37_FailureDoesNotStopDispatch ==
    (Quiescent /\ ml.limit >= 1 /\ "chunks" \in DOMAIN req) =>
        /\ ml.i = Length(req.chunks)
        /\ \A idx \in DOMAIN req.chunks :
               /\ req.embeds[idx] # "pending"
               /\ ml.worker[idx] = "fulfilled" =>
                      \E r \in Rows(req.table) :
                          r.id = req.calls[idx].id /\ r.text = req.chunks[idx]

\* with one chunk at a time, chunk 0 failed, the upload answered 500, and
\* chunk 1 was embedded and stored all the same
C37_Witness ==
    /\ req.state = "responded" /\ req.response.status = 500
    /\ ml.limit = 1 /\ Length(req.chunks) = 2
    /\ hist.order = <<0, 1>> /\ hist.failed = <<0>>
    /\ req.embeds[1] = "fulfilled" /\ ml.worker[1] = "fulfilled"
    /\ \E r \in Rows(req.table) : r.id = req.calls[1].id

----------------------------------------------------------------------------
(* Properties of the ask handler *)

Merged == "contextSnippets" \in DOMAIN req
MaxCtx == OrDefault(req.body.max_ctx, Num(DefaultMaxCtx)).n
Count(s, e) == Cardinality({k \in 1..Len(s) : s[k] = e})

\* C14: once /ask has merged, for max_ctx >= 0 the context holds
\* min(max_ctx, total hits) entries, all of them entries the two searches
\* returned, in ascending order of distance, and every entry left out has a
\* distance >= that of every entry kept.
C14_ContextIsNearestOfBoth ==
    (Merged /\ MaxCtx >= 0) =>
        LET hits == req.found[1] \o req.found[2]
            ctx == req.contextSnippets
        IN  /\ Len(ctx) = Min(MaxCtx, Len(hits))
            /\ \A j, k \in 1..Len(ctx) : j < k => ctx[j].distance <= ctx[k].distance
            /\ \A k \in 1..Len(ctx) : Count(ctx, ctx[k]) <= Count(hits, ctx[k])
            /\ \A h \in 1..Len(hits) :
                 Count(ctx, hits[h]) < Count(hits, hits[h]) =>
                     \A k \in 1..Len(ctx) : ctx[k].distance <= hits[h].distance

\* org-tier distances (1, 9), domain-tier distances (3, 5) and max_ctx 3 gave (1, 3, 5)
C14_Witness ==
    /\ Merged /\ MaxCtx = 3
    /\ [k \in 1..Len(req.found[1]) |-> req.found[1][k].distance] = <<1, 9>>
    /\ [k \in 1..Len(req.found[2]) |-> req.found[2][k].distance] = <<3, 5>>
    /\ [k \in 1..Len(req.contextSnippets) |-> req.contextSnippets[k].distance] = <<1, 3, 5>>

\* C15: the merged context is one function of what searchOrg returned and what
\* searchDomain returned, whichever of the two returned first.
C15_MergeIgnoresCompletionOrder ==
    Merged =>
        /\ req.orgSnips = req.found[1]
        /\ req.domainSnips = req.found[2]
        /\ req.contextSnippets = Slice(Sort(req.found[1] \o req.found[2]), MaxCtx)

\* searchDomain returned before searchOrg, both with rows, and an org-tier row
\* ties with a domain-tier row
C15_Witness ==
    /\ Merged
    /\ req.order = <<"searchDomain", "searchOrg">>
    /\ \E j \in 1..Len(req.found[1]) : \E k \in 1..Len(req.found[2]) :
         req.found[1][j].distance = req.found[2][k].distance
    /\ req.contextSnippets # <<>>

\* C20: a /ask request whose provider is none of OLLAMA, GROQ, OPENAI, MISTRAL
\* is answered 400 "Unsupported provider" with no embedding, search or
\* generation call made; and generateLLM called with such a provider throws
\* "Unsupported provider" without issuing an HTTP request.
C20_UnsupportedProviderNoCall ==
    /\ (req.state # "none" /\ req.provider \notin PROVIDERS) =>
         /\ req.state = "responded"
         /\ req.response = Response(400, [error |-> ErrUnsupported(req.provider)])
         /\ req.calls = <<>>
    /\ (op.name = "generateLLM" /\ ToUpperCase(op.provider) \notin PROVIDERS) =>
         /\ op.calls = <<>>
         /\ op.outcome = ErrUnsupported(ToUpperCase(op.provider))

\* /ask has refused provider "foo" and generateLLM has thrown for it
C20_Witness ==
    /\ req.state = "responded" /\ req.body.provider = Str("foo") /\ req.provider = "FOO"
    /\ req.response.status = 400
    /\ op.name = "generateLLM" /\ op.provider = "foo" /\ op.outcome = ErrUnsupported("FOO")

\* the place of a row in [...orgSnips, ...domainSnips]
PlaceOf(x) ==
    CHOOSE k \in 1..Len(req.orgSnips \o req.domainSnips) : (req.orgSnips \o req.domainSnips)[k] = x

\* the rows of the concatenation that sort before x: a smaller distance, or
\* the same distance and an earlier place; a missing distance counts as 0
Before(x) ==
    {k \in 1..Len(req.orgSnips \o req.domainSnips) :
        LET y == (req.orgSnips \o req.domainSnips)[k]
        IN  \/ DistanceOrZero(y) < DistanceOrZero(x)
            \/ DistanceOrZero(y) = DistanceOrZero(x) /\ k < PlaceOf(x)}

\* C34: the sort of the merged context is stable: entries of equal distance
\* keep their concatenation order (org tier before domain tier, each tier
\* in the order its search returned it), and an entry without distance is
\* ordered as if its distance were 0.
C34_MergeSortStable ==
    req.state = "merged" =>
        LET all == req.orgSnips \o req.domainSnips
            n == OrDefault(req.max_ctx, Num(DefaultMaxCtx)).n
            out == req.contextSnippets
        IN  /\ Len(out) = Min(n, Len(all))
            /\ \A k \in 1..Len(out) :
                   /\ \E j \in 1..Len(all) : all[j] = out[k]
                   /\ Cardinality(Before(out[k])) = k - 1

\* an org row and a domain row without distance and a domain row of
\* distance 0 are merged behind a row of negative distance
C34_Witness ==
    /\ req.state = "merged" /\ Len(req.contextSnippets) >= 3
    /\ Len(req.orgSnips) = 2 /\ Len(req.domainSnips) = 2
    /\ "distance" \notin DOMAIN req.orgSnips[1]
    /\ DistanceOrZero(req.orgSnips[2]) > 0
    /\ DistanceOrZero(req.domainSnips[1]) < 0
    /\ "distance" \notin DOMAIN req.domainSnips[2]
    /\ req.contextSnippets[1] = req.domainSnips[1]
    /\ req.contextSnippets[2] = req.orgSnips[1]
    /\ req.contextSnippets[3] = req.domainSnips[2]

----------------------------------------------------------------------------
(* Properties of chunkText *)

Returned == op.name = "chunkText" /\ op.pc = "done"
Step(o) == Max(1, o.maxTokens - o.overlapTokens)

\* C16: every call of chunkText returns, whatever the text, maxTokens and
\* overlapTokens (overlapTokens >= maxTokens included): each pass of the loop
\* moves the window start forward by max(1, maxTokens - overlapTokens) >= 1.
C16_ChunkTextTerminates ==
    /\ <>Returned
    /\ [][(op.pc = "while" /\ op'.pc = "while") =>
            /\ op'.i = op.i + Step(op)
            /\ op'.i >= op.i + 1]_vars

\* a call with overlapTokens >= maxTokens has returned several chunks
C16_Witness ==
    /\ Returned
    /\ op.overlapTokens >= op.maxTokens
    /\ Len(op.chunks) >= 3

\* a text with at least one word and no whitespace before or after
Clean(text) == text # <<>> /\ ~IsSpace(text[1]) /\ ~IsSpace(text[Len(text)])

\* ceil(a / b) for b > 0
Ceil(a, b) == IF a <= 0 THEN 0 - ((0 - a) \div b) ELSE (a + b - 1) \div b

\* C17: for a text of at least one word without whitespace around it and
\* overlapTokens < maxTokens, chunkText returns
\* max(1, ceil((words - overlapTokens) / (maxTokens - overlapTokens))) chunks.
C17_ChunkCount ==
    (Returned /\ Clean(op.text) /\ op.overlapTokens < op.maxTokens) =>
        Len(op.chunks) =
            Max(1, Ceil(Len(op.words) - op.overlapTokens, op.maxTokens - op.overlapTokens))

NonEmptyWords(words) == SelectSeq(words, LAMBDA w : w # <<>>)
Prefix(s, n) == SubSeq(s, 1, Min(n, Len(s)))

\* the first n words of each chunk, one chunk after the other
RECURSIVE Rejoin(_, _)
Rejoin(chunks, n) ==
    IF chunks = <<>> THEN <<>>
    ELSE Prefix(Split(Head(chunks)), n) \o Rejoin(Tail(chunks), n)

----------------------------------------------------------------------------
(* Properties of toVectorLiteral *)

\* the strings that are the text of a number, and that number
NumericStrings == {"0", "0.0", "1", "2"}
NumberOf(s) == CASE s \in {"0", "0.0"} -> 0 [] s = "1" -> 1 [] s = "2" -> 2

\* C19: toVectorLiteral of an array returns a literal of the same length
\* whose k-th element is the k-th element of the array if that is a finite
\* number, its number if it is a numeric string, and 0 for anything else;
\* toVectorLiteral of anything that is no array throws and returns no literal.
C19_ElementwiseEncoding ==
    (op.name = "toVectorLiteral" /\ op.pc = "done") =>
        IF IsArray(op.vec)
        THEN /\ op.outcome = "ok"
             /\ Len(op.literal) = Len(op.vec.array)
             /\ \A k \in 1..Len(op.vec.array) :
                  LET v == op.vec.array[k]
                  IN  op.literal[k] =
                        IF IsFinite(v) THEN v.n
                        ELSE IF v.type = "string" /\ v.s \in NumericStrings THEN NumberOf(v.s)
                        ELSE 0
        ELSE op.outcome = ErrNotArray /\ "literal" \notin DOMAIN op

----------------------------------------------------------------------------
(* Properties of withStep, generateLLM's timer and the timed ask handler *)

\* C21: when the generation backend has not answered by the time the
\* generation timeout elapses, generateLLM aborts the request in flight and
\* fails with an error that is neither what a backend-reported error nor what
\* a network failure gives, and that it gives in no other case.
C21_GenerateTimeoutAborts ==
    "gen" \in DOMAIN req =>
        /\ req.gen.http = "inflight" => req.now <= req.gen.due
        /\ req.gen.http = "aborted" =>
               /\ req.gen.abortedAt = req.gen.due
               /\ req.gen.outcome.state = "rejected"
               /\ req.gen.outcome.value.name = "CanceledError"
               /\ req.gen.outcome.value.code \notin {ErrBackend.code, ErrNetwork.code}
               /\ req.gen.outcome.value.name \notin {ErrBackend.name, ErrNetwork.name}
        /\ req.gen.http = "replied" /\ req.gen.outcome.state = "rejected" =>
               /\ req.gen.outcome.value \in {ErrBackend, ErrNetwork}
               /\ req.gen.outcome.value.name # "CanceledError"

\* the backend did not answer within the request's own genTimeoutMs and the
\* request in flight was aborted
C21_Witness ==
    /\ "gen" \in DOMAIN req /\ req.gen.http = "aborted"
    /\ req.gen.timeoutMs = BodyGenTimeout
    /\ req.steps["generate"].fn = "rejected"

\* C22: when the timer of a withStep call fires before fn has settled, the
\* call fails with the timeout error that names its label and its timeout,
\* and what fn returns or throws later never reaches the caller.
C22_TimeoutWinsRace ==
    "steps" \in DOMAIN req =>
        \A l \in StepLabels :
            req.steps[l].timedOut =>
                req.steps[l].delivered = <<Rejected(TimeoutError(l, req.steps[l].timeoutMs))>>

\* the embed step timed out and embed returned afterwards
C22_Witness ==
    /\ "steps" \in DOMAIN req
    /\ req.steps["embed"].timedOut /\ req.steps["embed"].fn = "fulfilled"
    /\ req.steps["embed"].fnAt >= req.steps["embed"].t0 + TimeoutEmbed
    /\ Len(req.steps["embed"].delivered) = 1 /\ Len(req.responses) = 1

\* the stage deadline of a step: the timeout of the call it wraps
Deadline(l) ==
    CASE l = "embed" -> TIMEOUTS.EMBED
      [] l \in {"searchOrg", "searchDomain"} -> TIMEOUTS.SEARCH
      [] l = "buildPrompt" -> TIMEOUTS.BUILD_PROMPT
      [] OTHER -> req.gen.timeoutMs

\* the call under step l took, or is taking, longer than the stage deadline
Overran(l) ==
    LET s == req.steps[l]
    IN  /\ s.fn # "notStarted"
        /\ \/ s.fn = "running" /\ req.now > s.t0 + Deadline(l)
           \/ s.fn # "running" /\ s.fnAt > s.t0 + Deadline(l)
           \/ l = "generate" /\ req.gen.http = "aborted"

SameStage(l, m) == l = m \/ {l, m} = {"searchOrg", "searchDomain"}

\* an overrun of stage l, unless the request was answered before the
\* deadline, has failed the request with the timeout error of that stage,
\* within the deadline and the watchdog margin
OverrunFailsRequest(l) ==
    Overran(l) /\ (req.state = "responded" => req.respondedAt >= req.steps[l].t0 + Deadline(l)) =>
        /\ req.state = "responded"
        /\ "caught" \in DOMAIN req
        /\ req.caught.message.text = "Step timed out"
        /\ SameStage(req.caught.message.label, l)
        /\ req.respondedAt <= req.steps[l].t0 + Deadline(l) + STEP_MARGIN

\* C23: a stage of /ask whose underlying call takes longer than its deadline
\* makes the request fail with a timeout error labelled with that stage, no
\* later than deadline + watchdog margin after the stage started; for the
\* embed, search, prompt-build and generate stages alike.
C23_OverrunFailsWithStageTimeout ==
    "steps" \in DOMAIN req => \A l \in StepLabels : OverrunFailsRequest(l)

\* the events of one withStep call
EventsOf(l) == SelectSeq(req.events, LAMBDA e : e.label = l)

\* start is first, and one completion event follows when the call has ended:
\* ok when it returned, FAIL with the error when it threw
OneCompletion(l) ==
    LET ev == EventsOf(l)
        s == req.steps[l]
    IN  /\ Len(ev) <= 2
        /\ (Len(ev) = 0) = (s.fn = "notStarted")
        /\ Len(ev) >= 1 => ev[1] = StartEvent(l)
        /\ (Len(ev) = 2) = (s.delivered # <<>>)
        /\ Len(ev) = 2 =>
               /\ Len(s.delivered) = 1
               /\ s.delivered[1].state = "fulfilled" => ev[2] = [label |-> l, kind |-> "ok"]
               /\ s.delivered[1].state = "rejected" =>
                      ev[2] = [label |-> l, kind |-> "FAIL", error |-> s.delivered[1].value]

\* C24: every withStep call emits a start event first and then exactly one
\* completion event: a success event when it returns a result, a failure
\* event carrying the error when it fails by fn's error or by timeout.
C24_StartThenOneCompletion ==
    /\ []("steps" \in DOMAIN req => \A l \in StepLabels : OneCompletion(l))
    /\ \A l \in StepLabels :
           [](("steps" \in DOMAIN req /\ req.steps[l].fn # "notStarted")
                  => <>(Len(EventsOf(l)) = 2))

\* the embed step returned, searchOrg failed by its fn's error and
\* searchDomain by its timeout
C24_Witness ==
    /\ "steps" \in DOMAIN req
    /\ EventsOf("embed") = <<StartEvent("embed"), [label |-> "embed", kind |-> "ok"]>>
    /\ EventsOf("searchOrg")
           = <<StartEvent("searchOrg"), [label |-> "searchOrg", kind |-> "FAIL", error |-> ErrStore]>>
    /\ EventsOf("searchDomain")
           = <<StartEvent("searchDomain"),
               [label |-> "searchDomain", kind |-> "FAIL",
                error |-> TimeoutError("searchDomain", TimeoutSearch)]>>

\* an answer is sent only when every stage the request has returned
AnswerAfterAllStages ==
    \A k \in 1..Len(req.responses) :
        "answer" \in DOMAIN req.responses[k].body =>
            /\ "error" \notin DOMAIN req.responses[k].body
            /\ \A l \in StepLabels :
                   l # "searchOrg" \/ Truthy(req.body.org_id) =>
                       /\ req.steps[l].delivered # <<>>
                       /\ req.steps[l].delivered[1].state = "fulfilled"

\* C27: every /ask request yields exactly one response: an answer, only when
\* embedding, every tier search, prompt build and generation all succeeded,
\* or a single error message with no answer.
C27_ExactlyOneResponse ==
    /\ Len(req.responses) <= 1
    /\ req.state \notin {"none", "embed", "search", "buildPrompt", "generate"}
           => Len(req.responses) = 1
    /\ AnswerAfterAllStages
    /\ \A k \in 1..Len(req.responses) :
           "answer" \notin DOMAIN req.responses[k].body
               => DOMAIN req.responses[k].body = {"error"}

\* C28: when a stage of /ask fails, the error that reaches the request
\* boundary is that stage's own error, unmodified except that it is tagged
\* with the label of the stage it came from.
C28_BoundaryErrorTaggedWithStage ==
    "caught" \in DOMAIN req =>
        \E l \in StepLabels :
            /\ req.steps[l].outcome.state = "rejected"
            /\ "stage" \in DOMAIN req.caught
            /\ req.caught = [stage |-> l] @@ req.steps[l].outcome.value

\* the place of an event of a step among the events of the request, 0 if none
EventAt(l, kind) ==
    IF \E k \in 1..Len(req.events) : req.events[k].label = l /\ req.events[k].kind = kind
    THEN CHOOSE k \in 1..Len(req.events) : req.events[k].label = l /\ req.events[k].kind = kind
    ELSE 0

\* step b has not started, or step a had returned when b started
ReturnedBefore(a, b) ==
    req.steps[b].fn # "notStarted" =>
        /\ EventAt(a, "ok") > 0 /\ EventAt(a, "ok") < EventAt(b, "start")
        /\ req.steps[a].delivered # <<>> /\ req.steps[a].delivered[1].state = "fulfilled"
        /\ req.steps[a].fnAt <= req.steps[b].t0

\* C32: within one /ask request the stages run in a fixed order: no tier
\* search starts before the embedding of the question has completed, the
\* prompt is built only after both tier searches have completed, and
\* generation starts only after the prompt has been built.
C32_StagesInOrder ==
    "body" \in DOMAIN req =>
        /\ ReturnedBefore("embed", "searchOrg")
        /\ ReturnedBefore("embed", "searchDomain")
        /\ ReturnedBefore("searchDomain", "buildPrompt")
        /\ Truthy(req.body.org_id) => ReturnedBefore("searchOrg", "buildPrompt")
        /\ ReturnedBefore("buildPrompt", "generate")
        /\ "gen" \in DOMAIN req => req.steps["generate"].fn # "notStarted"

\* a request with an org_id was answered: all five stages ran
C32_Witness ==
    /\ "body" \in DOMAIN req /\ Truthy(req.body.org_id)
    /\ Len(req.responses) = 1 /\ req.responses[1].status = 200
    /\ \A l \in StepLabels : EventAt(l, "start") > 0 /\ EventAt(l, "ok") > EventAt(l, "start")

\* C33: the watchdog of the generate step is due at the generation timeout
\* plus a fixed positive margin, so the abort of the backend call is due, and
\* fires, strictly before the watchdog, whatever generation timeout is
\* configured or given with the request.
C33_AbortBeforeWatchdog ==
    "gen" \in DOMAIN req =>
        /\ STEP_MARGIN > 0
        /\ req.steps["generate"].timeoutMs = req.gen.timeoutMs + STEP_MARGIN
        /\ req.gen.due < req.steps["generate"].due
        /\ req.gen.http = "aborted" => req.steps["generate"].outcome = req.gen.outcome
        /\ ~req.steps["generate"].timedOut

\* the timer of a started step is waiting or has fired, and it has not
\* fired before it was due, whether fn has settled or not
TimerKept(l) ==
    LET s == req.steps[l]
    IN  s.fn # "notStarted" =>
            /\ s.timer \in {"armed", "fired"}
            /\ req.now < s.due => s.timer = "armed"

\* C39: withStep never cancels its timer: when fn settles before the
\* deadline the timer stays pending until it fires, and its firing changes
\* neither the outcome already returned to the caller nor the events
\* already emitted for the step.
C39_WatchdogNeverCancelled ==
    /\ [](\A l \in StepLabels : TimerKept(l))
    /\ \A l \in StepLabels : [](req.steps[l].timer = "armed" => <>(req.steps[l].timer = "fired"))
    /\ [][\A l \in StepLabels :
              req.steps[l].delivered # <<>> =>
                  /\ req.steps'[l].delivered = req.steps[l].delivered
                  /\ req.steps'[l].outcome = req.steps[l].outcome
                  /\ EventsOf(l)' = EventsOf(l)
                  /\ req.steps[l].timer = "armed" /\ req.steps'[l].timer = "fired"
                         => req.events' = req.events /\ req.responses' = req.responses]_vars

\* embed returned before its deadline, and its timer fired afterwards
C39_Witness ==
    /\ req.steps["embed"].fn = "fulfilled" /\ req.steps["embed"].timer = "fired"
    /\ req.steps["embed"].fnAt < req.steps["embed"].due
    /\ req.steps["embed"].delivered = <<Fulfilled(EmbeddingA)>>
    /\ EventsOf("embed") = <<StartEvent("embed"), [label |-> "embed", kind |-> "ok"]>>
    /\ ~req.steps["embed"].timedOut

----------------------------------------------------------------------------
(* Properties of the bootstrap-admin handler *)

\* C40: over any interleaving of bootstrap requests only the first account
\* created gets the admin role: every later account gets role 'user', so at
\* most one admin is ever created, also when several requests are processed
\* at the same time.
C40_OnlyFirstBootstrapIsAdmin ==
    /\ Cardinality(AdminRows(req.users)) <= 1
    /\ \A k \in 2..Len(req.users) : req.users[k].role = "user"

====
